---- MODULE Spec2Model ----
(***************************************************************************)
(* Model of the AVR64DD32 weather station firmware: the BMP280 / SHT21     *)
(* sensor pipeline, the altitude estimate and the solar refraction         *)
(* correction, as sequenced by the main loop in main.c.                    *)
(*                                                                         *)
(* Integer arithmetic wider than TLC's native integers (the int64_t        *)
(* intermediates of CalcTruePres, the uint64_t of ReadMulti) is carried    *)
(* out on sign-magnitude numbers whose magnitude is a little-endian        *)
(* sequence of base-2^15 limbs.                                            *)
(***************************************************************************)
EXTENDS Integers, Sequences, FiniteSets, TLC

----------------------------------------------------------------------------
(* Wide integer arithmetic                                                 *)

RECURSIVE Pow2(_)
Pow2(k) == IF k = 0 THEN 1 ELSE 2 * Pow2(k - 1)

RECURSIVE NatBits(_)
NatBits(n) == IF n = 0 THEN 0 ELSE 1 + NatBits(n \div 2)

\* limbs are kept below 2^15 so that a product of two limbs plus a carry
\* stays inside TLC's native integers
Base == 2 * 16384
LimbBits == NatBits(Base) - 1

Limb(a, i) == IF i <= Len(a) THEN a[i] ELSE 0

RECURSIVE MagNorm(_)
MagNorm(a) ==
    IF a = <<>> THEN <<>>
    ELSE IF a[Len(a)] = 0 THEN MagNorm(SubSeq(a, 1, Len(a) - 1))
    ELSE a

RECURSIVE MagOfNat(_)
MagOfNat(n) == IF n = 0 THEN <<>> ELSE <<n % Base>> \o MagOfNat(n \div Base)

RECURSIVE MagAddFrom(_, _, _, _)
MagAddFrom(a, b, i, c) ==
    IF i > Len(a) /\ i > Len(b)
    THEN (IF c = 0 THEN <<>> ELSE <<c>>)
    ELSE LET s == Limb(a, i) + Limb(b, i) + c
         IN  <<s % Base>> \o MagAddFrom(a, b, i + 1, s \div Base)

MagAdd(a, b) == MagAddFrom(a, b, 1, 0)

RECURSIVE MagSubFrom(_, _, _, _)
MagSubFrom(a, b, i, br) ==
    IF i > Len(a) THEN <<>>
    ELSE LET d == Limb(a, i) - Limb(b, i) - br
         IN  IF d < 0 THEN <<d + Base>> \o MagSubFrom(a, b, i + 1, 1)
                      ELSE <<d>> \o MagSubFrom(a, b, i + 1, 0)

\* a - b for a >= b
MagSub(a, b) == MagNorm(MagSubFrom(a, b, 1, 0))

RECURSIVE MagCmpFrom(_, _, _)
MagCmpFrom(a, b, i) ==
    IF i = 0 THEN 0
    ELSE IF a[i] > b[i] THEN 1
    ELSE IF a[i] < b[i] THEN -1
    ELSE MagCmpFrom(a, b, i - 1)

\* -1, 0, 1 as a < b, a = b, a > b (normalised magnitudes)
MagCmp(a, b) ==
    IF Len(a) > Len(b) THEN 1
    ELSE IF Len(a) < Len(b) THEN -1
    ELSE MagCmpFrom(a, b, Len(a))

RECURSIVE MagMulSmallFrom(_, _, _, _)
MagMulSmallFrom(a, d, i, c) ==
    IF i > Len(a) THEN (IF c = 0 THEN <<>> ELSE <<c>>)
    ELSE LET s == a[i] * d + c
         IN  <<s % Base>> \o MagMulSmallFrom(a, d, i + 1, s \div Base)

\* a * d for 0 <= d < Base
MagMulSmall(a, d) == IF d = 0 THEN <<>> ELSE MagMulSmallFrom(a, d, 1, 0)

Zeros(n) == [i \in 1..n |-> 0]

ShiftLimbs(a, n) == IF a = <<>> THEN <<>> ELSE Zeros(n) \o a

RECURSIVE MagMulFrom(_, _, _)
MagMulFrom(a, b, j) ==
    IF j > Len(b) THEN <<>>
    ELSE MagAdd(ShiftLimbs(MagMulSmall(a, b[j]), j - 1), MagMulFrom(a, b, j + 1))

MagMul(a, b) == MagMulFrom(a, b, 1)

RECURSIVE MagDivSmallFrom(_, _, _, _)
\* quotient limbs of a[1..i] with incoming remainder r, most significant first
MagDivSmallFrom(a, d, i, r) ==
    IF i = 0 THEN <<>>
    ELSE LET cur == r * Base + a[i]
         IN  MagDivSmallFrom(a, d, i - 1, cur % d) \o <<cur \div d>>

\* floor(a / d) for 0 < d <= Base
MagDivSmall(a, d) == MagNorm(MagDivSmallFrom(a, d, Len(a), 0))

MagShl(a, k) ==
    ShiftLimbs(MagMulSmall(a, Pow2(k % LimbBits)), k \div LimbBits)

MagShr(a, k) ==
    LET q == k \div LimbBits
    IN  IF q >= Len(a) THEN <<>>
        ELSE MagDivSmall(SubSeq(a, q + 1, Len(a)), Pow2(k % LimbBits))

RECURSIVE DivBits(_, _, _, _, _)
\* long division of one limb, bit by bit; r < d < 2^30 is the running remainder
DivBits(r, limb, d, bit, q) ==
    IF bit < 0 THEN [r |-> r, q |-> q]
    ELSE LET r2 == 2 * r + ((limb \div Pow2(bit)) % 2)
         IN  IF r2 >= d THEN DivBits(r2 - d, limb, d, bit - 1, 2 * q + 1)
                        ELSE DivBits(r2, limb, d, bit - 1, 2 * q)

RECURSIVE MagDivNatFrom(_, _, _, _)
MagDivNatFrom(a, d, i, r) ==
    IF i = 0 THEN <<>>
    ELSE LET s == DivBits(r, a[i], d, LimbBits - 1, 0)
         IN  MagDivNatFrom(a, d, i - 1, s.r) \o <<s.q>>

\* floor(a / d) for a native divisor 0 < d < 2^30
MagDivNat(a, d) == MagNorm(MagDivNatFrom(a, d, Len(a), 0))

RECURSIVE MagToNat(_)
\* only for magnitudes below 2^31
MagToNat(a) == IF a = <<>> THEN 0 ELSE a[1] + Base * MagToNat(Tail(a))

Big(neg, mag) == [neg |-> (neg /\ mag # <<>>), mag |-> mag]

BigOf(n) ==
    IF n < 0 THEN Big(TRUE, MagAdd(MagOfNat(0 - (n + 1)), <<1>>))
    ELSE Big(FALSE, MagOfNat(n))

BigZero == Big(FALSE, <<>>)

BigIsZero(x) == x.mag = <<>>

BigNeg(x) == Big(~x.neg, x.mag)

BigAdd(x, y) ==
    IF x.neg = y.neg THEN Big(x.neg, MagAdd(x.mag, y.mag))
    ELSE IF MagCmp(x.mag, y.mag) >= 0 THEN Big(x.neg, MagSub(x.mag, y.mag))
    ELSE Big(y.neg, MagSub(y.mag, x.mag))

BigSub(x, y) == BigAdd(x, BigNeg(y))

BigMul(x, y) == Big(x.neg # y.neg, MagMul(x.mag, y.mag))

\* x << k, as the compiler emits it: multiplication by 2^k
BigShl(x, k) == Big(x.neg, MagShl(x.mag, k))

\* x >> k on a signed value: arithmetic shift, floor(x / 2^k)
BigSar(x, k) ==
    IF ~x.neg THEN Big(FALSE, MagShr(x.mag, k))
    ELSE Big(TRUE, MagAdd(MagShr(MagSub(x.mag, <<1>>), k), <<1>>))

\* x / d as C computes it (truncation toward zero), 0 < d < 2^30
BigDivNat(x, d) == Big(x.neg, MagDivNat(x.mag, d))

\* -1, 0, 1
BigCmp(x, y) ==
    IF x.neg /\ ~y.neg THEN -1
    ELSE IF ~x.neg /\ y.neg THEN 1
    ELSE IF x.neg THEN MagCmp(y.mag, x.mag)
    ELSE MagCmp(x.mag, y.mag)

\* the low w bits of |x| as a magnitude (w a multiple of 1 bit, w <= 64)
MagLowBits(a, w) ==
    LET q == w \div LimbBits
        r == w % LimbBits
    IN  MagNorm([i \in 1..(IF r = 0 THEN q ELSE q + 1) |->
                    IF i <= q THEN Limb(a, i) ELSE Limb(a, i) % Pow2(r)])

MagPow2(w) == MagShl(<<1>>, w)

\* x mod 2^w as a magnitude in 0 .. 2^w - 1 (two's complement of negatives)
BigModPow2(x, w) ==
    LET lo == MagLowBits(x.mag, w)
    IN  IF ~x.neg \/ lo = <<>> THEN lo ELSE MagSub(MagPow2(w), lo)

\* conversion to a signed w-bit integer, wrapping
BigWrapSigned(x, w) ==
    LET u == BigModPow2(x, w)
    IN  IF MagCmp(u, MagPow2(w - 1)) >= 0
        THEN Big(TRUE, MagSub(MagPow2(w), u))
        ELSE Big(FALSE, u)

\* a wide value known to fit a native integer
BigToInt(x) ==
    IF x.neg THEN (0 - MagToNat(MagSub(x.mag, <<1>>))) - 1
    ELSE MagToNat(x.mag)

----------------------------------------------------------------------------
(* IEEE-754 single precision conversion of an integer: (float)x            *)

MagBitLength(a) ==
    IF a = <<>> THEN 0 ELSE LimbBits * (Len(a) - 1) + NatBits(a[Len(a)])

FloatMantissaBits == 24

\* round-to-nearest-even of a magnitude to 24 significant bits
MagToFloat(a) ==
    LET L == MagBitLength(a)
    IN  IF L <= FloatMantissaBits THEN a
        ELSE LET s    == L - FloatMantissaBits
                 q    == MagShr(a, s)
                 rem  == MagSub(a, MagShl(q, s))
                 half == MagPow2(s - 1)
                 c    == MagCmp(rem, half)
                 up   == c > 0 \/ (c = 0 /\ q[1] % 2 = 1)
             IN  MagShl(IF up THEN MagAdd(q, <<1>>) ELSE q, s)

FloatOfBig(x) == Big(x.neg, MagToFloat(x.mag))

----------------------------------------------------------------------------
(* I2C transport (i2c.c)                                                   *)

\* ReadMulti: `regs' are the bytes the device delivers in register order,
\* `ok' the number of bytes received before I2C.error is raised (ok = bytes
\* is a successful read, ok = 0 a failure in the address phase or on the
\* first byte).  The uint64_t result is given by its bytes, byte 0 the least
\* significant.
ReadMulti(regs, bytes, ok) ==
    [j \in 0..7 |->
        IF bytes = 0 \/ bytes > 8 THEN 0
        ELSE IF j <= bytes - 1 /\ (bytes - 1 - j) < ok
             THEN regs[(bytes - 1 - j) + 1]
             ELSE 0]

\* the low 24 bits of a ReadMulti result as a native integer
Low24(data) == data[2] * 65536 + data[1] * 256 + data[0]

\* conversion of a value in 0..65535 on assignment to int16_t / uint16_t
ToInt16(v) == IF v >= 32768 THEN v - 65536 ELSE v
ToUint16(v) == v % 65536

----------------------------------------------------------------------------
(* BMP280 (BMP390.c)                                                       *)

SwapBytes_noSwap(data, shift) ==
    data[(shift \div 8) + 1] * 256 + data[shift \div 8]

\* ((data >> shift) & 0xFF) << 8 | ((data >> shift) & 0xFF00) >> 8
SwapBytes(data, shift) ==
    data[shift \div 8] * 256 + data[(shift \div 8) + 1]

\* one pass of the loop body of ReadBMP280Calibration for part 0, 1, 2
DecodePart(dig, part, data) ==
    IF part = 0 THEN
        [dig EXCEPT !.T1 = ToUint16(SwapBytes(data, 48)),
                    !.T2 = ToInt16(SwapBytes(data, 32)),
                    !.T3 = ToInt16(SwapBytes(data, 16)),
                    !.P1 = ToUint16(SwapBytes(data, 0))]
    ELSE IF part = 1 THEN
        [dig EXCEPT !.P2 = ToInt16(SwapBytes(data, 48)),
                    !.P3 = ToInt16(SwapBytes(data, 32)),
                    !.P4 = ToInt16(SwapBytes(data, 16)),
                    !.P5 = ToInt16(SwapBytes(data, 0))]
    ELSE
        [dig EXCEPT !.P6 = ToInt16(SwapBytes(data, 48)),
                    !.P7 = ToInt16(SwapBytes(data, 32)),
                    !.P8 = ToInt16(SwapBytes(data, 16)),
                    !.P9 = ToInt16(SwapBytes(data, 0))]

W32(x) == BigWrapSigned(x, 32)
W64(x) == BigWrapSigned(x, 64)

\* CalcTrueTemp: int32_t arithmetic; sh1 is the right shift that ends the
\* var1 line.  `wrap' is what the build does with the value of an int32_t
\* expression: two's complement wrap-around, or (FALSE) the exact value kept
\* until it is stored in an int32_t object.
TrueTempCore(dig, UT, sh1, wrap) ==
    LET Expr(x) == IF wrap THEN W32(x) ELSE x
        a    == BigOf((UT \div 8) - (dig.T1 * 2))
        var1 == W32(BigSar(Expr(BigMul(a, BigOf(dig.T2))), sh1))
        b    == BigOf((UT \div 16) - dig.T1)
        var2 == W32(BigSar(Expr(BigMul(BigSar(Expr(BigMul(b, b)), 12),
                                       BigOf(dig.T3))), 14))
        fine == W32(Expr(BigAdd(var1, var2)))
        T    == W32(BigSar(Expr(BigAdd(Expr(BigMul(fine, BigOf(5))),
                                       BigOf(128))), 8))
    IN  [t_fine |-> BigToInt(fine),
         T32    |-> BigToInt(T),
         T      |-> ToInt16(BigToInt(T) % 65536)]

TrueTempWith(dig, UT, sh1) == TrueTempCore(dig, UT, sh1, TRUE)

TrueTemp_shift10(dig, UT) == TrueTempWith(dig, UT, 10)

TrueTemp(dig, UT) == TrueTempWith(dig, UT, 11)

InInt32(x) ==
    /\ BigCmp(BigNeg(Big(FALSE, MagPow2(31))), x) <= 0
    /\ BigCmp(x, Big(FALSE, MagPow2(31))) < 0

\* the exact values of the int32_t expressions of CalcTrueTemp, in the order
\* they are evaluated: the two differences, the products, the shifted terms,
\* t_fine, t_fine * 5 and t_fine * 5 + 128
TrueTempTerms(dig, UT) ==
    LET a    == BigOf((UT \div 8) - (dig.T1 * 2))
        m1   == BigMul(a, BigOf(dig.T2))
        var1 == BigSar(W32(m1), 11)
        b    == BigOf((UT \div 16) - dig.T1)
        sq   == BigMul(b, b)
        s12  == BigSar(W32(sq), 12)
        m2   == BigMul(s12, BigOf(dig.T3))
        var2 == BigSar(W32(m2), 14)
        fine == BigAdd(var1, var2)
        f5   == BigMul(W32(fine), BigOf(5))
        r    == BigAdd(W32(f5), BigOf(128))
    IN  <<a, m1, var1, b, sq, s12, m2, var2, fine, f5, r>>

TrueTempOverflows(dig, UT) ==
    \E t \in {TrueTempTerms(dig, UT)} : \E i \in DOMAIN t : ~InInt32(t[i])

\* Signed overflow is undefined: the build either wraps (the 32-bit multiply
\* and add routines) or carries the exact value on to the next store.
TrueTempOutcomes(dig, UT) ==
    {TrueTemp(dig, UT)} \cup
        (IF TrueTempOverflows(dig, UT)
         THEN {TrueTempCore(dig, UT, 11, FALSE)} ELSE {})

\* the guard value of CalcTruePres: (((int64_t)1 << 47) + var1) * dig_P1 >> 33
PresVar1_offset32(dig, t_fine) ==
    BigSar(W64(BigMul(BigAdd(Big(FALSE, MagPow2(32)),
                             BigSub(BigOf(t_fine), BigOf(128000))),
                      BigOf(dig.P1))), 33)

PresVar1(dig, t_fine) ==
    BigSar(W64(BigMul(BigAdd(Big(FALSE, MagPow2(47)),
                             BigSub(BigOf(t_fine), BigOf(128000))),
                      BigOf(dig.P1))), 33)

\* CalcTruePres: int64_t arithmetic.  The result records the guard value,
\* whether the division was executed, the int64_t p, the value converted to
\* uint32_t on return, and whether BMP280.Pressure / CalibrationValues.p
\* were stored.  `guarded' is the presence of the var1 == 0 return, `lsh' the
\* left shift applied to 1048576 - UP.
TruePresWith(dig, t_fine, UP, guarded, lsh) ==
    LET v1a  == BigSub(BigOf(t_fine), BigOf(128000))
        v2a  == W64(BigMul(W64(BigMul(v1a, v1a)), BigOf(dig.P6)))
        v2b  == W64(BigAdd(v2a, W64(BigShl(W64(BigMul(v1a, BigOf(dig.P5))), 17))))
        v2c  == W64(BigAdd(v2b, W64(BigShl(BigOf(dig.P4), 35))))
        var1 == PresVar1(dig, t_fine)
    IN  IF BigIsZero(var1)
        THEN IF guarded
             THEN [var1 |-> 0, divided |-> FALSE, stored |-> FALSE,
                   p |-> BigZero, ret |-> BigZero]
             ELSE [var1 |-> 0, divided |-> TRUE, stored |-> TRUE,
                   p |-> BigZero, ret |-> BigZero]
        ELSE
        LET d   == BigToInt(var1)
            p0  == BigOf(1048576 - UP)
            num == W64(BigMul(W64(BigSub(W64(BigShl(p0, lsh)), v2c)), BigOf(3125)))
            p1  == BigDivNat(num, d)
            s13 == BigSar(p1, 13)
            v1b == BigSar(W64(BigMul(W64(BigMul(BigOf(dig.P9), s13)), s13)), 25)
            v2d == BigSar(W64(BigMul(BigOf(dig.P8), p1)), 19)
            p2  == W64(BigAdd(BigSar(W64(BigAdd(W64(BigAdd(p1, v1b)), v2d)), 8),
                              BigShl(BigOf(dig.P7), 4)))
        IN  [var1 |-> d, divided |-> TRUE, stored |-> TRUE,
             p |-> p2, ret |-> Big(FALSE, BigModPow2(p2, 32))]

TruePres_shift30(dig, t_fine, UP) == TruePresWith(dig, t_fine, UP, TRUE, 30)

TruePres_unguarded(dig, t_fine, UP) == TruePresWith(dig, t_fine, UP, FALSE, 31)

TruePres(dig, t_fine, UP) == TruePresWith(dig, t_fine, UP, TRUE, 31)

----------------------------------------------------------------------------
(* SHT21 (SHT45.c)                                                         *)

\* CRC8MAXIM is declared in Settings.h and called by Separator; with the CRC
\* ignored it hands back the 16-bit measurement word, the upper two bytes of
\* the three bytes read (MSB, LSB with the status bits, checksum).
CRC8MAXIM(data) == (data \div 256) % 65536

\* Separator: which field is written and the value stored.  SHT21.RH is kept
\* in units of 1/65536 %, SHT21.T in units of 1/6553600 degree Celsius, so
\* that (reader/65536)*125 - 6 and (reader/65536)*175.72 - 46.85 are exact.
SeparatorResult_keepStatus(data) ==
    LET reader == CRC8MAXIM(data)
    IN  IF (reader \div 2) % 2 = 1
        THEN [field |-> "RH", value |-> (reader * 125) - (6 * 65536)]
        ELSE [field |-> "T",  value |-> (reader * 17572) - (4685 * 65536)]

SeparatorResult_bit0(data) ==
    LET reader == CRC8MAXIM(data)
    IN  IF reader % 2 = 1
        THEN [field |-> "RH", value |-> ((reader - 2) * 125) - (6 * 65536)]
        ELSE [field |-> "T",  value |-> (reader * 17572) - (4685 * 65536)]

SeparatorResult(data) ==
    LET reader == CRC8MAXIM(data)
    IN  IF (reader \div 2) % 2 = 1
        THEN [field |-> "RH", value |-> ((reader - 2) * 125) - (6 * 65536)]
        ELSE [field |-> "T",  value |-> (reader * 17572) - (4685 * 65536)]

----------------------------------------------------------------------------
(* Environment: what the devices and the operator can deliver              *)

RefCalib == [T1 |-> 27504, T2 |-> 26435, T3 |-> -1000,
             P1 |-> 36477, P2 |-> -10685, P3 |-> 3024, P4 |-> 2855,
             P5 |-> 140, P6 |-> -7, P7 |-> 15500, P8 |-> -14600, P9 |-> 6000]

CoefNames == <<"T1", "T2", "T3", "P1", "P2", "P3", "P4", "P5", "P6", "P7", "P8", "P9">>

\* the 24 register bytes calib00..calib23 that hold a coefficient set:
\* low byte first, two's complement
RegsOf(c) ==
    [i \in 1..24 |->
        LET v == c[CoefNames[((i - 1) \div 2) + 1]] % 65536
        IN  IF (i - 1) % 2 = 0 THEN v % 256 ELSE v \div 256]

\* number of patterned calibration blocks besides the reference block and
\* the erased (all zero) block
MaxPattern == 1

PatternRegs(k) == [i \in 1..24 |-> (k * 131 + i * 37) % 256]

CalibBlocks ==
    {RegsOf(RefCalib), [i \in 1..24 |-> 0]} \cup {PatternRegs(k) : k \in 1..MaxPattern}

RefUT == 519888
RefUP == 415148

\* number of raw samples besides the reference sample
MaxSample == 1

\* the 20-bit raw counts the sensor can deliver in a cycle
RawSamples ==
    {[ut |-> RefUT, up |-> RefUP]} \cup
    {[ut |-> RefUT + k * 4099, up |-> RefUP - k * 5003] : k \in 1..MaxSample}

\* the three data register bytes (msb, lsb, xlsb) of a 20-bit raw count
RawRegs(v) == <<(v \div 4096) % 256, (v \div 16) % 256, (v % 16) * 16>>


\* 16-bit SHT21 words: status bit 1 set / clear, status bit 0 set / clear
ShtWords == {25426, 25427, 26216, 26217}

\* the three bytes the SHT21 answers with: the word and a checksum byte
ShtRegs(w) == <<w \div 256, w % 256, 0>>

\* solar positions the clock device can send, in whole degrees
Azimuths == {90, 180}
Elevations == {-5, 0, 30}

\* altitudes the operator can enter in the edit window
EnteredAltitudes == {-50, 100, 9001}

\* A run varies one group of inputs and holds the others at a reference
\* value: "bmp" varies the calibration block and the raw counts, "sht" the
\* SHT21 words, "sun" the clock device commands and the entered altitude,
\* "i2c" the outcome of the I2C reads, "edit" the entries of the edit window.
Scenarios == {"bmp", "sht", "sun", "i2c", "edit"}

\* the number of bytes a ReadMulti receives before I2C.error is raised: all
\* of them, or in the "i2c" runs possibly none
OkCounts(sc, bytes) == IF sc = "i2c" THEN {0, bytes} ELSE {bytes}

CalibBlocksOf(sc) == IF sc = "bmp" THEN CalibBlocks ELSE {RegsOf(RefCalib)}

RawSamplesOf(sc) ==
    IF sc = "bmp" THEN RawSamples ELSE {[ut |-> RefUT, up |-> RefUP]}

\* the words answering the humidity command and the temperature command
ShtWordsOf(sc, mode) ==
    IF sc = "sht" THEN ShtWords
    ELSE IF mode = "RH" THEN {25426} ELSE {26216}

----------------------------------------------------------------------------
(* State                                                                   *)

VARIABLES
    scenario,    \* the group of inputs this run varies
    pc,          \* position in main(): the next call to run
    bmpRegs,     \* calibration registers calib00..calib23 of the BMP280
    BMP280,      \* BMP280Result: coefficients, raw counts, results
    SHT21,       \* SHT: RH and T
    SUN,         \* SunAngles
    Date_Clock,  \* Calendar
    Altitude,    \* Alt
    calls,       \* return values and guard of the last CalcTrueTemp / CalcTruePres
    cycle,       \* what the current loop iteration has done so far
    rx,          \* the characters USART1_readChar has yet to return
    reader,      \* ClockAndDataReader: index, start, command[60]
    scans,       \* the results scan_keypad has yet to return
    Keypad3x4,   \* KeypadButtons: key, key_held
    keys,        \* keypad(): the statics last_key and hold_counter
    editor,      \* DateAndLocationChangeWindow: the statics newTimeAndPlace, step
    upDown       \* ParameterViewWindow: the static upDown

\* the clock-device reader and the keypad / edit-window state, which the
\* sensor pipeline neither reads nor writes
ui == <<rx, reader, scans, Keypad3x4, keys, editor, upDown>>

vars == <<scenario, pc, bmpRegs, BMP280, SHT21, SUN, Date_Clock, Altitude, calls, cycle, ui>>

ZeroCalib == [n \in {CoefNames[i] : i \in 1..12} |-> 0]

ZeroPressure == [num |-> BigZero, lapse |-> <<>>]

\* per-iteration record: the pipeline stages run so far, the result fields
\* assigned so far, the pressure CalcTruePres stored (if it stored one), and
\* the reads that ended with I2C.error set
NewCycle == [stages |-> <<>>, written |-> {}, stored |-> <<>>, errors |-> {}]

\* Date_Clock as CommunicationsVar.h initialises it; latitude and longitude
\* are held in units of 1/10000 degree
InitialClock ==
    [year |-> 0, month |-> 0, day |-> 0, hour |-> 0, minute |-> 0, second |-> 0,
     hunderts |-> 0, latitude |-> 0, longitude |-> 0, timezone |-> 2,
     altitude |-> -50, error |-> 0, errorCounter |-> 0, warning |-> 0]

\* ClockAndDataReader between calls.  `lastWrite' is the index of the last
\* write into command[] of the current or last call (-1: none yet) and
\* `passed' the buffer the call handed to executeCommand (<<>>: none)
IdleReader ==
    [running |-> FALSE, index |-> 0, start |-> 0, command |-> [i \in 1..60 |-> 0],
     lastWrite |-> -1, passed |-> <<>>]

\* keypad(): the statics, with the number of scans of the current hold
\* (counted up to MaxCounted) and the long presses registered during it
IdleKeys == [last_key |-> 0, hold_counter |-> 0, held |-> 0, registered |-> 0]

\* what the last call of DateAndLocationChangeWindow did: the index of its
\* write into newTimeAndPlace[] (-1: none), the returns of the validators if
\* it reached ValidateNewData (<<>>: it did not), the message it sent to the
\* clock device (<<>>: none), and Date_Clock.altitude when it was entered
NoCall == [wrote |-> -1, ret |-> <<>>, sent |-> <<>>, altitude |-> -50]

\* DateAndLocationChangeWindow: the statics
IdleEditor ==
    [step |-> 0, newTimeAndPlace |-> [i \in 1..38 |-> 0], call |-> NoCall]

\* nothing arrives from the clock device and no key is touched
InitUi ==
    /\ rx = <<>>
    /\ reader = IdleReader
    /\ scans = <<>>
    /\ Keypad3x4 = [key |-> 0, key_held |-> 0]
    /\ keys = IdleKeys
    /\ editor = IdleEditor
    /\ upDown = 0

Init ==
    /\ scenario \in Scenarios
    /\ pc = "ReadBMP280Calibration"
    /\ bmpRegs \in CalibBlocksOf(scenario)
    /\ BMP280 = [dig |-> ZeroCalib, UT |-> 8388608, UP |-> 8388608,
                 t_fine |-> 0, T |-> 0, p |-> BigZero,
                 Temperature |-> 0, Pressure |-> ZeroPressure]
    /\ SHT21 = [RH |-> 0, T |-> 0]
    /\ SUN = [azimuth |-> 0, elevation |-> 0,
              adjelevation |-> [el |-> 0, refr |-> <<>>], adjazimuth |-> 0]
    /\ Date_Clock = InitialClock
    /\ Altitude = [UNCOMP |-> <<>>, COMP |-> <<>>, AVRG |-> <<88>>]
    /\ calls = [calib |-> <<>>, temp |-> 0,
                var1 |-> 0, divided |-> FALSE, pres |-> BigZero,
                sep |-> [data |-> 0, field |-> "none"],
                edit |-> [entry |-> <<>>, ret |-> <<>>]]
    /\ cycle = NewCycle
    /\ InitUi

----------------------------------------------------------------------------
(* Initialisation: main.c line 47                                          *)

\* the outcomes of the three 8-byte reads of ReadBMP280Calibration
CalibOutcomes(sc) ==
    {<<a, b, c>> : a \in OkCounts(sc, 8), b \in OkCounts(sc, 8), c \in OkCounts(sc, 8)}

DecodeCalibration(dig, regs, oks) ==
    LET d0 == DecodePart(dig, 0, ReadMulti(SubSeq(regs, 1, 8), 8, oks[1]))
        d1 == DecodePart(d0, 1, ReadMulti(SubSeq(regs, 9, 16), 8, oks[2]))
    IN  DecodePart(d1, 2, ReadMulti(SubSeq(regs, 17, 24), 8, oks[3]))

ReadBMP280Calibration ==
    /\ pc = "ReadBMP280Calibration"
    /\ \E oks \in CalibOutcomes(scenario) :
         /\ BMP280' = [BMP280 EXCEPT !.dig = DecodeCalibration(@, bmpRegs, oks)]
         /\ calls' = [calls EXCEPT !.calib = oks]
    /\ pc' = "ReadBMP280TP"
    /\ UNCHANGED <<ui, scenario, bmpRegs, SHT21, SUN, Date_Clock, Altitude, cycle>>

----------------------------------------------------------------------------
(* Main loop: main.c lines 51-83                                           *)

Stage(c, name, fields) ==
    [c EXCEPT !.stages = Append(@, name), !.written = @ \cup fields]

\* ReadMulti leaves I2C.error set when it received fewer bytes than asked for
Failed(read, ok, bytes) == IF ok < bytes THEN {read} ELSE {}

ReadBMP280TP_clearsCoefficients ==
    /\ pc = "ReadBMP280TP"
    /\ \E s \in RawSamplesOf(scenario) :
         BMP280' = [BMP280 EXCEPT !.dig = ZeroCalib, !.UP = s.up, !.UT = s.ut]
    /\ cycle' = Stage(NewCycle, "ReadBMP280TP", {"UP", "UT"})
    /\ pc' = "CalcTrueTemp"
    /\ UNCHANGED <<ui, scenario, bmpRegs, SHT21, SUN, Date_Clock, Altitude, calls>>

ReadBMP280TP ==
    /\ pc = "ReadBMP280TP"
    /\ \E s \in RawSamplesOf(scenario), okP \in OkCounts(scenario, 3),
            okT \in OkCounts(scenario, 3) :
         /\ BMP280' = [BMP280 EXCEPT
                         !.UP = Low24(ReadMulti(RawRegs(s.up), 3, okP)) \div 16,
                         !.UT = Low24(ReadMulti(RawRegs(s.ut), 3, okT)) \div 16]
         /\ cycle' = [Stage(NewCycle, "ReadBMP280TP", {"UP", "UT"}) EXCEPT
                        !.errors = Failed("press_msb", okP, 3)
                                       \cup Failed("temp_msb", okT, 3)]
    /\ pc' = "CalcTrueTemp"
    /\ UNCHANGED <<ui, scenario, bmpRegs, SHT21, SUN, Date_Clock, Altitude, calls>>

CalcTrueTemp_localFine ==
    /\ pc = "CalcTrueTemp"
    /\ \E r \in TrueTempOutcomes(BMP280.dig, BMP280.UT) :
           /\ BMP280' = [BMP280 EXCEPT !.T = r.T, !.Temperature = r.T32]
           /\ calls' = [calls EXCEPT !.temp = r.T]
    /\ cycle' = Stage(cycle, "CalcTrueTemp", {"T", "Temperature"})
    /\ pc' = "CalcTruePres"
    /\ UNCHANGED <<ui, scenario, bmpRegs, SHT21, SUN, Date_Clock, Altitude>>

CalcTrueTemp ==
    /\ pc = "CalcTrueTemp"
    /\ \E r \in TrueTempOutcomes(BMP280.dig, BMP280.UT) :
           /\ BMP280' = [BMP280 EXCEPT !.t_fine = r.t_fine, !.T = r.T,
                                       !.Temperature = r.T32]
           /\ calls' = [calls EXCEPT !.temp = r.T]
    /\ cycle' = Stage(cycle, "CalcTrueTemp", {"t_fine", "T", "Temperature"})
    /\ pc' = "CalcTruePres"
    /\ UNCHANGED <<ui, scenario, bmpRegs, SHT21, SUN, Date_Clock, Altitude>>

\* BMP280.Pressure is (float)p / 25600: `num' is (float)p, in units of
\* 1/25600 hPa, and `lapse' lists the observer altitudes whose lapse factor
\* pow(1 - 0.0065*altitude/288.15, 5.255) has been multiplied in since.
PressureOf(p) == [num |-> FloatOfBig(p), lapse |-> <<>>]

CalcTruePres_storesReturned ==
    /\ pc = "CalcTruePres"
    /\ \E r \in {TruePres(BMP280.dig, BMP280.t_fine, BMP280.UP)} :
           /\ BMP280' = [BMP280 EXCEPT !.Pressure = PressureOf(r.p), !.p = r.ret]
           /\ calls' = [calls EXCEPT !.var1 = r.var1, !.divided = r.divided,
                                     !.pres = r.ret]
           /\ cycle' = [Stage(cycle, "CalcTruePres", {"Pressure", "p"})
                          EXCEPT !.stored = <<PressureOf(r.p)>>]
    /\ pc' = "SeparatorRH"
    /\ UNCHANGED <<ui, scenario, bmpRegs, SHT21, SUN, Date_Clock, Altitude>>

CalcTruePres ==
    /\ pc = "CalcTruePres"
    /\ \E r \in {TruePres(BMP280.dig, BMP280.t_fine, BMP280.UP)} :
           /\ BMP280' = IF r.stored
                        THEN [BMP280 EXCEPT !.Pressure = PressureOf(r.p),
                                            !.p = r.ret]
                        ELSE BMP280
           /\ calls' = [calls EXCEPT !.var1 = r.var1, !.divided = r.divided,
                                     !.pres = r.ret]
           /\ cycle' = IF r.stored
                       THEN [Stage(cycle, "CalcTruePres", {"Pressure", "p"})
                                EXCEPT !.stored = <<PressureOf(r.p)>>]
                       ELSE Stage(cycle, "CalcTruePres", {})
    /\ pc' = "SeparatorRH"
    /\ UNCHANGED <<ui, scenario, bmpRegs, SHT21, SUN, Date_Clock, Altitude>>

\* Separator(SHT21_Read(mode)) for a hold-master mode: a 3-byte ReadMulti
\* converted to uint32_t, then Separator
SHT21_Read(w, ok) == Low24(ReadMulti(ShtRegs(w), 3, ok))

Separator(sht, data) ==
    LET r == SeparatorResult(data)
    IN  [sht EXCEPT ![r.field] = r.value]

SeparatorRH ==
    /\ pc = "SeparatorRH"
    /\ \E w \in ShtWordsOf(scenario, "RH"), ok \in OkCounts(scenario, 3) :
         \E data \in {SHT21_Read(w, ok)} :
           /\ SHT21' = Separator(SHT21, data)
           /\ calls' = [calls EXCEPT !.sep = [data |-> data,
                                              field |-> SeparatorResult(data).field]]
           /\ cycle' = [Stage(cycle, "Separator", {SeparatorResult(data).field})
                          EXCEPT !.errors = @ \cup Failed("SHT21_RH", ok, 3)]
    /\ pc' = "SeparatorT"
    /\ UNCHANGED <<ui, scenario, bmpRegs, BMP280, SUN, Date_Clock, Altitude>>

SeparatorT ==
    /\ pc = "SeparatorT"
    /\ \E w \in ShtWordsOf(scenario, "T"), ok \in OkCounts(scenario, 3) :
         \E data \in {SHT21_Read(w, ok)} :
           /\ SHT21' = Separator(SHT21, data)
           /\ calls' = [calls EXCEPT !.sep = [data |-> data,
                                              field |-> SeparatorResult(data).field]]
           /\ cycle' = [Stage(cycle, "Separator", {SeparatorResult(data).field})
                          EXCEPT !.errors = @ \cup Failed("SHT21_T", ok, 3)]
    /\ pc' = "Retransmitt"
    /\ UNCHANGED <<ui, scenario, bmpRegs, BMP280, SUN, Date_Clock, Altitude>>

----------------------------------------------------------------------------
(* Clock device commands and refraction correction                         *)
(* (Communications.c, ElAndAzComp.c)                                       *)

\* the solar tokens of a received command: none (no command, a timeout, or a
\* command that ends after the date token), the azimuth only, or both
Commands ==
    {<<>>} \cup {<<az>> : az \in Azimuths}
           \cup {<<az, el>> : az \in Azimuths, el \in Elevations}

CommandsOf(sc) ==
    IF sc = "sun" THEN Commands
    ELSE IF sc = "bmp" THEN {<<>>, <<90, 30>>}
    ELSE {<<>>}

EnteredAltitudesOf(sc) ==
    IF sc = "sun" THEN EnteredAltitudes
    ELSE IF sc = "bmp" THEN {100}
    ELSE {}

executeCommand(sun, cmd) ==
    [sun EXCEPT !.azimuth   = IF Len(cmd) >= 1 THEN cmd[1] ELSE @,
                !.elevation = IF Len(cmd) >= 2 THEN cmd[2] ELSE @]

\* BMP280.Pressure *= pow(1 - (0.0065 * altitude / 288.15), 5.255);
\* the product of zero with the (finite) factor is zero
ApplyLapse(P, alt) ==
    IF BigIsZero(P.num) THEN P ELSE [P EXCEPT !.lapse = Append(@, alt)]

\* the returned refraction is a function of SUN.elevation and of the pressure
\* and temperature it is scaled with; <<>> stands for the 0.0 of the early
\* return
calculate_refraction_noAltitudeCheck(sun, P, T, alt) ==
    IF sun.elevation <= 0 THEN [refraction |-> <<>>, Pressure |-> P]
    ELSE LET P2 == ApplyLapse(P, alt)
         IN  [refraction |-> <<P2, T>>, Pressure |-> P2]

calculate_refraction(sun, P, T, alt) ==
    IF sun.elevation <= 0 THEN [refraction |-> <<>>, Pressure |-> P]
    ELSE LET P2 == IF alt > 0 THEN ApplyLapse(P, alt) ELSE P
         IN  [refraction |-> <<P2, T>>, Pressure |-> P2]

correct_solar_angles_always(sun, P, T, alt) ==
    LET r == calculate_refraction(sun, P, T, alt)
    IN  [sun |-> [sun EXCEPT
                    !.adjelevation = [el |-> sun.elevation,
                                      refr |-> r.refraction],
                    !.adjazimuth = sun.azimuth],
         Pressure |-> r.Pressure]

correct_solar_angles(sun, P, T, alt) ==
    IF sun.elevation > 0
    THEN LET r == calculate_refraction(sun, P, T, alt)
         IN  [sun |-> [sun EXCEPT
                         !.adjelevation = [el |-> sun.elevation,
                                           refr |-> r.refraction],
                         !.adjazimuth = sun.azimuth],
              Pressure |-> r.Pressure]
    ELSE [sun |-> sun, Pressure |-> P]

Retransmitt_noCorrection ==
    /\ pc = "Retransmitt"
    /\ \E cmd \in CommandsOf(scenario) : SUN' = executeCommand(SUN, cmd)
    /\ pc' = "WindAndSunLevel"
    /\ UNCHANGED <<ui, scenario, bmpRegs, BMP280, SHT21, Date_Clock, Altitude, calls, cycle>>

Retransmitt_correctsTwice ==
    /\ pc = "Retransmitt"
    /\ \E cmd \in CommandsOf(scenario) :
         LET sun1 == executeCommand(SUN, cmd)
             r1   == correct_solar_angles(sun1, BMP280.Pressure, SHT21.T,
                                          Date_Clock.altitude)
             r    == correct_solar_angles(r1.sun, r1.Pressure, SHT21.T,
                                          Date_Clock.altitude)
         IN  /\ SUN' = r.sun
             /\ BMP280' = [BMP280 EXCEPT !.Pressure = r.Pressure]
             /\ cycle' = Stage(cycle, "correct_solar_angles",
                               IF sun1.elevation > 0
                               THEN {"adjelevation", "adjazimuth"} ELSE {})
    /\ pc' = "WindAndSunLevel"
    /\ UNCHANGED <<ui, scenario, bmpRegs, SHT21, Date_Clock, Altitude, calls>>

Retransmitt ==
    /\ pc = "Retransmitt"
    /\ \E cmd \in CommandsOf(scenario) :
         LET sun1 == executeCommand(SUN, cmd)
             r    == correct_solar_angles(sun1, BMP280.Pressure, SHT21.T,
                                          Date_Clock.altitude)
         IN  /\ SUN' = r.sun
             /\ BMP280' = [BMP280 EXCEPT !.Pressure = r.Pressure]
             /\ cycle' = Stage(cycle, "correct_solar_angles",
                               IF sun1.elevation > 0
                               THEN {"adjelevation", "adjazimuth"} ELSE {})
    /\ pc' = "WindAndSunLevel"
    /\ UNCHANGED <<ui, scenario, bmpRegs, SHT21, Date_Clock, Altitude, calls>>

\* WindSpeed(); WindDirection(); SunLevel(); touch none of the values above
WindAndSunLevel ==
    /\ pc = "WindAndSunLevel"
    /\ pc' = "AltitudeAverage"
    /\ UNCHANGED <<ui, scenario, bmpRegs, BMP280, SHT21, SUN, Date_Clock, Altitude, calls, cycle>>

----------------------------------------------------------------------------
(* Altitude (Altitude.c)                                                   *)

\* Real arithmetic of the altitude formulas, in binary fixed point: a value v
\* is the integer floor(v * 2^FxBits).
FxBits == 40

FxOne == Big(FALSE, MagPow2(FxBits))

FxMul(x, y) == BigSar(BigMul(x, y), FxBits)

\* n / d for an integer n and 0 < d < 2^30
FxRatio(n, d) == BigDivNat(BigShl(n, FxBits), d)

\* number of terms summed of the series of log and exp
SeriesTerms == 40

\* log(1 + u) = u - u^2/2 + u^3/3 - ..., for |u| <= 1/3
RECURSIVE FxLog1pFrom(_, _, _)
\* st.pow is u^k, st.acc the sum of the terms before the k-th
FxLog1pFrom(u, st, k) ==
    IF k > SeriesTerms \/ BigIsZero(st.pow) THEN st.acc
    ELSE CHOOSE r \in
            {FxLog1pFrom(u, n, k + 1) :
                n \in {[pow |-> FxMul(st.pow, u),
                        acc |-> IF k % 2 = 1
                                THEN BigAdd(st.acc, BigDivNat(st.pow, k))
                                ELSE BigSub(st.acc, BigDivNat(st.pow, k))]}} : TRUE

FxLog1p(u) == FxLog1pFrom(u, [pow |-> u, acc |-> BigZero], 1)

FxLog2 == BigSub(FxLog1p(FxRatio(BigOf(1), 3)), FxLog1p(FxRatio(BigOf(-1), 3)))

\* log(x) for x > 0: x is halved or doubled into [2/3, 4/3)
RECURSIVE FxLogFrom(_, _)
\* e is the number of halvings made so far (negative: doublings)
FxLogFrom(x, e) ==
    IF BigCmp(BigMul(x, BigOf(3)), BigMul(FxOne, BigOf(4))) >= 0
    THEN CHOOSE r \in {FxLogFrom(h, e + 1) : h \in {BigSar(x, 1)}} : TRUE
    ELSE IF BigCmp(BigMul(x, BigOf(3)), BigMul(FxOne, BigOf(2))) < 0
    THEN CHOOSE r \in {FxLogFrom(h, e - 1) : h \in {BigShl(x, 1)}} : TRUE
    ELSE BigAdd(FxLog1p(BigSub(x, FxOne)), BigMul(FxLog2, BigOf(e)))

FxLog(x) == FxLogFrom(x, 0)

\* exp(y) = 1 + y + y^2/2! + ...
RECURSIVE FxExpFrom(_, _, _)
\* st.term is y^(k-1)/(k-1)!, st.acc the sum of the terms up to it
FxExpFrom(y, st, k) ==
    IF k > SeriesTerms \/ BigIsZero(st.term) THEN st.acc
    ELSE CHOOSE r \in
            {FxExpFrom(y, [term |-> t, acc |-> BigAdd(st.acc, t)], k + 1) :
                t \in {BigDivNat(FxMul(st.term, y), k)}} : TRUE

FxExp(y) == FxExpFrom(y, [term |-> FxOne, acc |-> FxOne], 1)

\* pow(x, n / d) for x > 0
FxPow(x, n, d) == FxExp(BigDivNat(BigMul(FxLog(x), BigOf(n)), d))

\* SEA_LEVEL_PRESSURE 1013.25 hPa, in the 1/25600 hPa units of Pressure.num
SEA_LEVEL_PRESSURE == 25939200

\* the value of BMP280.Pressure / seaLevel: the stored (float)p / 25600
\* times the lapse factors pow(1 - 0.0065 * altitude / 288.15, 5.255) that
\* calculate_refraction multiplied in
RECURSIVE LapseProduct(_, _, _)
LapseProduct(x, lapse, i) ==
    IF i > Len(lapse) THEN x
    ELSE CHOOSE r \in
            {LapseProduct(y, lapse, i + 1) :
                y \in {FxMul(x, FxPow(FxRatio(BigOf(2881500 - (65 * lapse[i])),
                                              2881500), 5255, 1000))}} : TRUE

PressureRatio(P, seaLevel) == LapseProduct(FxRatio(P.num, seaLevel), P.lapse, 1)

\* 44330.7692307 * (pow(BMP280.Pressure / SEA_LEVEL_PRESSURE, -0.1902632) - 1)
\* in millimetres; pow of a zero base with a negative exponent is +infinity,
\* of a negative base with a fractional exponent NaN
UncompensatedWith(P, seaLevel) ==
    LET x == PressureRatio(P, seaLevel)
    IN  IF BigIsZero(x) THEN [kind |-> "inf"]
        ELSE IF x.neg THEN [kind |-> "nan"]
        ELSE [kind |-> "finite",
              mm   |-> BigToInt(BigDivNat(
                          BigSar(BigMul(BigSub(FxPow(x, -1902632, 10000000), FxOne),
                                        BigOf(443307692)), FxBits), 10))]

Uncompensated_seaLevel1000(P) == UncompensatedWith(P, 25600000)

Uncompensated(P) == UncompensatedWith(P, SEA_LEVEL_PRESSURE)

\* the three results are functions of the values read: UNCOMP of the
\* pressure, COMP of pressure, SHT21.T and SHT21.RH, AVRG of the two
AltitudeOf_bmpTemperature(P, sht) ==
    LET u == <<P>>
        c == <<P, BMP280.Temperature, sht.RH>>
    IN  [UNCOMP |-> u, COMP |-> c, AVRG |-> <<u, c>>]

AltitudeOf(P, sht) ==
    LET u == <<P>>
        c == <<P, sht.T, sht.RH>>
    IN  [UNCOMP |-> u, COMP |-> c, AVRG |-> <<u, c>>]

AltitudeAverage ==
    /\ pc = "AltitudeAverage"
    /\ Altitude' = AltitudeOf(BMP280.Pressure, SHT21)
    /\ cycle' = Stage(cycle, "AltitudeAverage", {"UNCOMP", "COMP", "AVRG"})
    /\ pc' = "windows"
    /\ UNCHANGED <<ui, scenario, bmpRegs, BMP280, SHT21, SUN, Date_Clock, calls>>

----------------------------------------------------------------------------
(* Edit window (Windows.c, Communications.c)                               *)

isLeapYear(year) ==
    IF (year % 4 = 0 /\ year % 100 # 0) \/ year % 400 = 0 THEN 1 ELSE 0

daysInMonth(year) ==
    <<31, IF isLeapYear(year) # 0 THEN 29 ELSE 28, 31, 30, 31, 30, 31, 31, 30, 31, 30, 31>>

isValidDateTime(year, month, day, hour, minute, second) ==
    IF year < 1 \/ month < 1 \/ month > 12 THEN 1
    ELSE IF day < 1 \/ day > daysInMonth(year)[month]
            \/ hour > 23 \/ minute > 59 \/ second > 59 THEN 1
    ELSE 0

isValidTimeZone(timeZone) == IF timeZone < -12 \/ timeZone > 12 THEN 1 ELSE 0

isValidAltitude_oneWhenValid(altitude) ==
    IF altitude < -500 \/ altitude > 9000 THEN 0 ELSE 1

isValidAltitude(altitude) == IF altitude < -500 \/ altitude > 9000 THEN 1 ELSE 0

\* latitude and longitude in units of 1/10000 degree, as the digits are entered
isValidLatitude(latitude) == IF latitude < -900000 \/ latitude > 900000 THEN 1 ELSE 0

isValidLongitude(longitude) ==
    IF longitude < -1800000 \/ longitude > 1800000 THEN 1 ELSE 0

\* a completed entry of the edit window: the values ValidateNewData
\* assembles from the 38 digits
RefEntry ==
    [year |-> 2024, month |-> 2, day |-> 29, hour |-> 12, minute |-> 30,
     second |-> 0, timeZone |-> 2, altitude |-> 100,
     latitude |-> 547000, longitude |-> 253000]

EnteredDates ==
    {[RefEntry EXCEPT !.year = y, !.month = m, !.day = d] :
        y \in {0, 1900, 2000, 2023, 2024}, m \in {0, 2, 4, 12, 13},
        d \in {0, 28, 29, 30, 31, 32}}

EnteredTimes ==
    {[RefEntry EXCEPT !.hour = 23], [RefEntry EXCEPT !.hour = 24],
     [RefEntry EXCEPT !.minute = 59], [RefEntry EXCEPT !.minute = 60],
     [RefEntry EXCEPT !.second = 59], [RefEntry EXCEPT !.second = 60]}

EnteredPlaces ==
    {[RefEntry EXCEPT !.timeZone = z] : z \in {-13, -12, 12, 13}}
    \cup {[RefEntry EXCEPT !.altitude = a] : a \in {-501, -500, 9000, 9001}}
    \cup {[RefEntry EXCEPT !.latitude = l] :
            l \in {-900001, -900000, 900000, 900001}}
    \cup {[RefEntry EXCEPT !.longitude = l] :
            l \in {-1800001, -1800000, 1800000, 1800001}}

\* the entries a run can complete: "edit" varies every field, "sun" the
\* altitude, "bmp" enters the altitude 100
EntriesOf(sc) ==
    IF sc = "edit" THEN EnteredDates \cup EnteredTimes \cup EnteredPlaces
    ELSE {[RefEntry EXCEPT !.altitude = a] : a \in EnteredAltitudesOf(sc)}

\* the validator calls ValidateNewData makes, in order, up to the first one
\* that returns 1
ValidatorReturns(e) ==
    LET r == <<isValidDateTime(e.year, e.month, e.day, e.hour, e.minute, e.second),
               isValidTimeZone(e.timeZone), isValidAltitude(e.altitude),
               isValidLatitude(e.latitude), isValidLongitude(e.longitude)>>
        n == IF \E i \in 1..5 : r[i] = 1
             THEN CHOOSE i \in 1..5 : r[i] = 1 /\ \A j \in 1..(i - 1) : r[j] # 1
             ELSE 5
    IN  SubSeq(r, 1, n)

ValidateNewData_storesUnchecked(dc, e) == [dc EXCEPT !.altitude = e.altitude]

\* ValidateNewData on a completed entry
ValidateNewData(dc, e) ==
    IF \E r \in {ValidatorReturns(e)} : \E i \in DOMAIN r : r[i] = 1 THEN dc
    ELSE [dc EXCEPT !.altitude = e.altitude]

NoEdit == [entry |-> <<>>, ret |-> <<>>]

\* keypad(); windows(); either a window that only displays, or the edit
\* window completing its last digit
windows ==
    /\ pc = "windows"
    /\ \/ /\ UNCHANGED Date_Clock
          /\ calls' = [calls EXCEPT !.edit = NoEdit]
       \/ \E e \in EntriesOf(scenario) :
            /\ Date_Clock' = ValidateNewData(Date_Clock, e)
            /\ calls' = [calls EXCEPT !.edit = [entry |-> e,
                                                ret |-> ValidatorReturns(e)]]
    /\ pc' = "ReadBMP280TP"
    /\ UNCHANGED <<ui, scenario, bmpRegs, BMP280, SHT21, SUN, Altitude, cycle>>

Next ==
    \/ ReadBMP280Calibration
    \/ ReadBMP280TP
    \/ CalcTrueTemp
    \/ CalcTruePres
    \/ SeparatorRH
    \/ SeparatorT
    \/ Retransmitt
    \/ WindAndSunLevel
    \/ AltitudeAverage
    \/ windows

Spec == Init /\ [][Next]_vars

----------------------------------------------------------------------------
(* AltitudeAverage as a function of the three globals it reads             *)

\* Q24.8 pressures: 1013.25 hPa, the reference result, 900 hPa, 500 hPa, and
\* the start-up value 0
AltitudePressures == {SEA_LEVEL_PRESSURE, 25763824, 23040000, 12800000, 0}

\* SHT21.T in units of 1/6553600 degree: -10, 0, 15 and 25 degrees
AltitudeTemperatures == {-65536000, 0, 98304000, 163840000}

\* SHT21.RH in units of 1/65536 percent: 0, 50 and 100 percent
AltitudeHumidities == {0, 3276800, 6553600}

InitAltitude ==
    /\ scenario = "altitude"
    /\ pc = "AltitudeAverage"
    /\ bmpRegs = RegsOf(RefCalib)
    /\ \E p \in AltitudePressures :
         BMP280 = [dig |-> RefCalib, UT |-> RefUT, UP |-> RefUP,
                   t_fine |-> 0, T |-> 0, p |-> BigOf(p),
                   Temperature |-> 0, Pressure |-> PressureOf(BigOf(p))]
    /\ SHT21 \in [RH : AltitudeHumidities, T : AltitudeTemperatures]
    /\ SUN = [azimuth |-> 0, elevation |-> 0,
              adjelevation |-> [el |-> 0, refr |-> <<>>], adjazimuth |-> 0]
    /\ Date_Clock = InitialClock
    /\ Altitude = [UNCOMP |-> <<>>, COMP |-> <<>>, AVRG |-> <<88>>]
    /\ calls = [calib |-> <<8, 8, 8>>, temp |-> 0,
                var1 |-> 0, divided |-> FALSE, pres |-> BigZero,
                sep |-> [data |-> 0, field |-> "none"],
                edit |-> [entry |-> <<>>, ret |-> <<>>]]
    /\ cycle = NewCycle
    /\ InitUi

NextAltitude == AltitudeAverage

SpecAltitude == InitAltitude /\ [][NextAltitude]_vars

----------------------------------------------------------------------------
(* The guard of CalcTruePres as a function of t_fine and dig_P1            *)

MinInt32 == (0 - 2147483647) - 1

MaxInt32 == 2147483647

\* t_fine: both ends of int32_t, the values around 0 and around the 128000
\* the formula subtracts, and the reference value
GuardFines ==
    {MinInt32, MinInt32 + 1, -1, 0, 127999, 128000, 128001, 128422,
     MaxInt32 - 1, MaxInt32}

\* dig_P1: both ends of uint16_t, their neighbours, and the reference value
GuardP1 == {0, 1, 2, 36477, 65534, 65535}

InitGuard ==
    /\ scenario = "guard"
    /\ pc = "CalcTruePres"
    /\ bmpRegs = RegsOf(ZeroCalib)
    /\ \E f \in GuardFines, p1 \in GuardP1 :
         BMP280 = [dig |-> [ZeroCalib EXCEPT !.P1 = p1], UT |-> RefUT, UP |-> RefUP,
                   t_fine |-> f, T |-> 0, p |-> BigZero,
                   Temperature |-> 0, Pressure |-> ZeroPressure]
    /\ SHT21 = [RH |-> 0, T |-> 0]
    /\ SUN = [azimuth |-> 0, elevation |-> 0,
              adjelevation |-> [el |-> 0, refr |-> <<>>], adjazimuth |-> 0]
    /\ Date_Clock = InitialClock
    /\ Altitude = [UNCOMP |-> <<>>, COMP |-> <<>>, AVRG |-> <<88>>]
    /\ calls = [calib |-> <<8, 8, 8>>, temp |-> 0,
                var1 |-> 0, divided |-> FALSE, pres |-> BigZero,
                sep |-> [data |-> 0, field |-> "none"],
                edit |-> [entry |-> <<>>, ret |-> <<>>]]
    /\ cycle = NewCycle
    /\ InitUi

NextGuard == CalcTruePres

SpecGuard == InitGuard /\ [][NextGuard]_vars

----------------------------------------------------------------------------
(* The clock device reader, character by character (Communications.c)      *)

\* character codes
LT == 60

GT == 62

BAR == 124

DOT == 46

MINUS == 45

IsDigit(c) == c >= 48 /\ c <= 57

\* a call of USART1_readChar that gave up waiting
TIMEOUT == -1

CountForError == 10

Run(c, n) == [c |-> c, n |-> n]

Text(chars) == [i \in DOMAIN chars |-> Run(chars[i], 1)]

\* USART1_readChar on a stream of runs, a run standing for n successive
\* returns of the character c: the character returned, whether the call set
\* Date_Clock.warning, and the stream left
USART1_readChar(stream) ==
    LET run == Head(stream)
    IN  [c       |-> IF run.c = TIMEOUT THEN 0 ELSE run.c,
         warning |-> run.c = TIMEOUT,
         rest    |-> IF run.n > 1
                     THEN <<[run EXCEPT !.n = @ - 1]>> \o Tail(stream)
                     ELSE Tail(stream)]

\* the C string that starts a sequence of bytes
RECURSIVE UntilNul(_)
UntilNul(s) ==
    IF s = <<>> \/ Head(s) = 0 THEN <<>>
    ELSE <<Head(s)>> \o UntilNul(Tail(s))

\* strtok(command, "|") and the strtok(NULL, "|") calls after it: the
\* non-empty runs of characters between delimiters
RECURSIVE TokensFrom(_, _)
TokensFrom(s, cur) ==
    IF s = <<>> THEN (IF cur = <<>> THEN <<>> ELSE <<cur>>)
    ELSE IF Head(s) = BAR
         THEN (IF cur = <<>> THEN <<>> ELSE <<cur>>) \o TokensFrom(Tail(s), <<>>)
         ELSE TokensFrom(Tail(s), Append(cur, Head(s)))

strtok(s) == TokensFrom(s, <<>>)

\* the number of leading digits of s, at most width
LeadingDigits(s, width) ==
    LET m == IF Len(s) < width THEN Len(s) ELSE width
    IN  CHOOSE k \in 0..m :
            /\ \A i \in 1..k : IsDigit(s[i])
            /\ k = m \/ ~IsDigit(s[k + 1])

RECURSIVE DigitsValue(_)
DigitsValue(s) ==
    IF s = <<>> THEN 0
    ELSE (10 * DigitsValue(SubSeq(s, 1, Len(s) - 1))) + (s[Len(s)] - 48)

\* sscanf(token, "%4u%2u%2u%2u%2u%2u%1u", ...): the values converted, in
\* order; a conversion that finds no digit ends the call
RECURSIVE sscanfFields(_, _)
sscanfFields(s, widths) ==
    IF widths = <<>> THEN <<>>
    ELSE LET k == LeadingDigits(s, Head(widths))
         IN  IF k = 0 THEN <<>>
             ELSE <<DigitsValue(SubSeq(s, 1, k))>>
                    \o sscanfFields(SubSeq(s, k + 1, Len(s)), Tail(widths))

DateWidths == <<4, 2, 2, 2, 2, 2, 1>>

DateFields == <<"year", "month", "day", "hour", "minute", "second", "hunderts">>

\* atof on an optional '-', digits, and an optional '.' with up to four
\* digits, in units of 1/10000; what follows is not converted (the tokens of
\* the frames below have at most five digits before the '.')
atof(s) ==
    LET neg   == s # <<>> /\ s[1] = MINUS
        t     == IF neg THEN Tail(s) ELSE s
        k     == LeadingDigits(t, Len(t))
        u     == SubSeq(t, k + 1, Len(t))
        f     == IF u # <<>> /\ u[1] = DOT THEN LeadingDigits(Tail(u), 4) ELSE 0
        scale == <<1000, 100, 10, 1>>
        frac  == IF f = 0 THEN 0 ELSE DigitsValue(SubSeq(u, 2, f + 1)) * scale[f]
        v     == (DigitsValue(SubSeq(t, 1, k)) * 10000) + frac
    IN  IF neg THEN 0 - v ELSE v

\* atoi on an optional '-' and digits
atoi(s) ==
    LET neg == s # <<>> /\ s[1] = MINUS
        t   == IF neg THEN Tail(s) ELSE s
        v   == DigitsValue(SubSeq(t, 1, LeadingDigits(t, Len(t))))
    IN  IF neg THEN 0 - v ELSE v

\* SUN.azimuth and SUN.elevation are held in whole degrees
Degrees(x) == x \div 10000

\* executeCommand on the text of the buffer: the date token, then the tokens
\* for the solar angles, latitude, longitude and time zone that are present
executeCommandText(dc, sun, text) ==
    LET tok    == strtok(text)
        date   == IF tok = <<>> THEN <<>> ELSE sscanfFields(tok[1], DateWidths)
        dc1    == [f \in DOMAIN dc |->
                      IF \E i \in DOMAIN date : DateFields[i] = f
                      THEN date[CHOOSE i \in DOMAIN date : DateFields[i] = f]
                      ELSE dc[f]]
        solar  == IF Len(tok) >= 3
                  THEN <<Degrees(atof(tok[2])), Degrees(atof(tok[3]))>>
                  ELSE IF Len(tok) = 2 THEN <<Degrees(atof(tok[2]))>> ELSE <<>>
    IN  [dc  |-> [dc1 EXCEPT
                    !.latitude  = IF Len(tok) >= 4 THEN atof(tok[4]) ELSE @,
                    !.longitude = IF Len(tok) >= 5 THEN atof(tok[5]) ELSE @,
                    !.timezone  = IF Len(tok) >= 6 THEN atoi(tok[6]) ELSE @],
         sun |-> executeCommand(sun, solar)]

\* the bytes that follow command[59] on the stack, which strtok reads when
\* the buffer holds no zero byte: a zero at once, or one more character
OverrunTails == {<<>>, <<55>>}

\* the texts executeCommand can see in the buffer
CommandTexts(command) ==
    IF \E i \in DOMAIN command : command[i] = 0 THEN {UntilNul(command)}
    ELSE {command \o t : t \in OverrunTails}

\* command[index++] = c.  With index above 59 the byte is stored outside the
\* buffer: in memory that holds none of the reader's variables, or on top of
\* `index', or on top of `start'
WriteCommand(r, c) ==
    IF r.index <= 59
    THEN {[r EXCEPT !.command[r.index + 1] = c, !.index = (@ + 1) % 256,
                    !.lastWrite = r.index]}
    ELSE {[r EXCEPT !.index = (@ + 1) % 256, !.lastWrite = r.index],
          [r EXCEPT !.index = c, !.lastWrite = r.index],
          [r EXCEPT !.start = c, !.index = (@ + 1) % 256, !.lastWrite = r.index]}

\* the reader after its break: the locals are gone
Returned(r, passed) ==
    [IdleReader EXCEPT !.lastWrite = r.lastWrite, !.passed = passed]

\* one turn of the while loop of ClockAndDataReader on the character c, with
\* Date_Clock.warning as USART1_readChar left it
ReaderTurn(r, dc, sun, c) ==
    IF dc.warning # 0
    THEN {[reader |-> Returned(r, <<>>),
           dc     |-> [dc EXCEPT
                         !.warning = 0,
                         !.errorCounter = IF @ < CountForError THEN @ + 1 ELSE @,
                         !.error = IF dc.errorCounter < CountForError THEN @ ELSE 1],
           sun    |-> sun]}
    ELSE IF r.start = 1 /\ c = GT
    THEN {[reader |-> Returned(r, r.command), dc |-> e.dc, sun |-> e.sun] :
            e \in {executeCommandText(dc, sun, t) : t \in CommandTexts(r.command)}}
    ELSE {[reader |-> IF c = LT THEN [w EXCEPT !.start = 1] ELSE w,
           dc     |-> IF dc.error = 1
                      THEN [dc EXCEPT !.errorCounter = 0, !.error = 0] ELSE dc,
           sun    |-> sun] :
            w \in IF r.start = 1 THEN WriteCommand(r, c) ELSE {r}}

\* ClockAndDataReader, one character per step; a step taken while no call is
\* in progress enters the function (lines 61-63) first
ClockAndDataReader ==
    /\ pc = "Retransmitt"
    /\ rx # <<>>
    /\ \E in \in {USART1_readChar(rx)} :
         \E o \in ReaderTurn(IF reader.running THEN reader
                             ELSE [IdleReader EXCEPT !.running = TRUE],
                             [Date_Clock EXCEPT
                                !.warning = IF in.warning THEN 1 ELSE @],
                             SUN, in.c) :
           /\ reader' = o.reader
           /\ Date_Clock' = o.dc
           /\ SUN' = o.sun
           /\ rx' = in.rest
    /\ UNCHANGED <<scenario, pc, bmpRegs, BMP280, SHT21, Altitude, calls, cycle,
                   scans, Keypad3x4, keys, editor, upDown>>

\* "<20240229123000|90|30|54.7|25.3|2>"
RefFrame == Text(<<60, 50, 48, 50, 52, 48, 50, 50, 57, 49, 50, 51, 48, 48, 48, 124, 57, 48, 124, 51, 48, 124, 53, 52, 46, 55, 124, 50, 53, 46, 51, 124, 50, 62>>)

\* "<20240229123001|180|-5>"
ShortFrame ==
    Text(<<60, 50, 48, 50, 52, 48, 50, 50, 57, 49, 50, 51, 48, 48, 49, 124, 49, 56, 48, 124, 45, 53, 62>>)

\* "<<12|5>": a second '<' before the '>'
NestedFrame == Text(<<60, 60, 49, 50, 124, 53, 62>>)

\* '<', n times 'x', '>'
Filled(n) == <<Run(LT, 1), Run(120, n), Run(GT, 1)>>

\* payload lengths: empty, the last that leaves a zero byte, the first that
\* fills the buffer, the first that leaves it, and one that takes the
\* uint8_t index past 255
FillLengths == {0, 59, 60, 61, 260}

ReaderStreams ==
    {RefFrame, ShortFrame, NestedFrame,
     RefFrame \o ShortFrame,
     Text(<<49, 50>>) \o ShortFrame,
     <<Run(TIMEOUT, 1)>> \o RefFrame,
     <<Run(TIMEOUT, CountForError + 2)>> \o ShortFrame \o RefFrame}
    \cup {Filled(n) : n \in FillLengths}

InitReader ==
    /\ scenario = "reader"
    /\ pc = "Retransmitt"
    /\ bmpRegs = RegsOf(RefCalib)
    /\ BMP280 = [dig |-> RefCalib, UT |-> RefUT, UP |-> RefUP,
                 t_fine |-> 0, T |-> 0, p |-> BigZero,
                 Temperature |-> 0, Pressure |-> ZeroPressure]
    /\ SHT21 = [RH |-> 0, T |-> 0]
    /\ SUN = [azimuth |-> 0, elevation |-> 0,
              adjelevation |-> [el |-> 0, refr |-> <<>>], adjazimuth |-> 0]
    /\ Date_Clock = InitialClock
    /\ Altitude = [UNCOMP |-> <<>>, COMP |-> <<>>, AVRG |-> <<88>>]
    /\ calls = [calib |-> <<8, 8, 8>>, temp |-> 0,
                var1 |-> 0, divided |-> FALSE, pres |-> BigZero,
                sep |-> [data |-> 0, field |-> "none"],
                edit |-> [entry |-> <<>>, ret |-> <<>>]]
    /\ cycle = NewCycle
    /\ rx \in ReaderStreams
    /\ reader = IdleReader
    /\ scans = <<>>
    /\ Keypad3x4 = [key |-> 0, key_held |-> 0]
    /\ keys = IdleKeys
    /\ editor = IdleEditor
    /\ upDown = 0

NextReader == ClockAndDataReader

SpecReader == InitReader /\ [][NextReader]_vars

----------------------------------------------------------------------------
(* Keypad (Keypad3x4.c)                                                    *)

DEBOUNCE_DELAY == 10

HOLD_THRESHOLD == 50

LONG_PRESS_ADD == 20

\* the scans of one hold are counted up to this number
MaxCounted == 7

Smaller(a, b) == IF a < b THEN a ELSE b

\* scan_keypad on a stream of runs, a run standing for n successive scans
\* that find the key c down (0: none); after the stream no key is touched
scan_keypad(stream) ==
    IF stream = <<>> THEN [key |-> 0, rest |-> <<>>]
    ELSE LET run == Head(stream)
         IN  [key  |-> run.c,
              rest |-> IF run.n > 1
                       THEN <<[run EXCEPT !.n = @ - 1]>> \o Tail(stream)
                       ELSE Tail(stream)]

\* while (scan_keypad() != 0); the stream after the scan that finds no key
RECURSIVE Released(_)
Released(stream) ==
    IF stream = <<>> THEN <<>>
    ELSE IF Head(stream).c # 0 THEN Released(Tail(stream))
    ELSE scan_keypad(stream).rest

keypad_counterKeepsThreshold ==
    /\ pc = "keypad"
    /\ \E sc \in {scan_keypad(scans)} :
         LET key     == sc.key
             same    == key = keys.last_key /\ key # 0
             counter == IF same THEN (keys.hold_counter + DEBOUNCE_DELAY) % 65536
                        ELSE 0
             long    == same /\ counter = HOLD_THRESHOLD
         IN  /\ Keypad3x4' = IF long
                             THEN [key |-> 0, key_held |-> key + LONG_PRESS_ADD]
                             ELSE [Keypad3x4 EXCEPT !.key = key]
             /\ keys' = [last_key     |-> key,
                         hold_counter |-> counter,
                         held         |-> IF key = 0 THEN 0
                                          ELSE IF same
                                          THEN Smaller(keys.held + 1, MaxCounted)
                                          ELSE 1,
                         registered   |-> IF ~same THEN 0
                                          ELSE IF long
                                          THEN Smaller(keys.registered + 1, 2)
                                          ELSE keys.registered]
             /\ scans' = sc.rest
    /\ pc' = "windows"
    /\ UNCHANGED <<scenario, bmpRegs, BMP280, SHT21, SUN, Date_Clock, Altitude,
                   calls, cycle, rx, reader, editor, upDown>>

\* keypad(): one scan.  `held' counts the consecutive scans that found the
\* same key down, `registered' the long presses registered during them
keypad ==
    /\ pc = "keypad"
    /\ \E sc \in {scan_keypad(scans)} :
         LET key     == sc.key
             same    == key = keys.last_key /\ key # 0
             counter == IF same THEN (keys.hold_counter + DEBOUNCE_DELAY) % 65536
                        ELSE 0
             long    == same /\ counter = HOLD_THRESHOLD
         IN  /\ Keypad3x4' = IF long
                             THEN [key |-> 0, key_held |-> key + LONG_PRESS_ADD]
                             ELSE [Keypad3x4 EXCEPT !.key = key]
             /\ keys' = [last_key     |-> key,
                         hold_counter |-> IF long THEN HOLD_THRESHOLD + 1
                                          ELSE counter,
                         held         |-> IF key = 0 THEN 0
                                          ELSE IF same
                                          THEN Smaller(keys.held + 1, MaxCounted)
                                          ELSE 1,
                         registered   |-> IF ~same THEN 0
                                          ELSE IF long
                                          THEN Smaller(keys.registered + 1, 2)
                                          ELSE keys.registered]
             /\ scans' = sc.rest
    /\ pc' = "windows"
    /\ UNCHANGED <<scenario, bmpRegs, BMP280, SHT21, SUN, Date_Clock, Altitude,
                   calls, cycle, rx, reader, editor, upDown>>

----------------------------------------------------------------------------
(* The windows, key by key (Windows.c)                                     *)

Abs(v) == IF v < 0 THEN 0 - v ELSE v

Digit(v, divisor) == (v \div divisor) % 10

Pow10(n) == <<1, 10, 100, 1000, 10000, 100000, 1000000>>[n + 1]

extractDigitFromTime(dc, s) ==
    <<Digit(dc.year, 1000), Digit(dc.year, 100), Digit(dc.year, 10),
      Digit(dc.year, 1), Digit(dc.month, 10), Digit(dc.month, 1),
      Digit(dc.day, 10), Digit(dc.day, 1), Digit(dc.hour, 10),
      Digit(dc.hour, 1), Digit(dc.minute, 10), Digit(dc.minute, 1),
      Digit(dc.second, 10), Digit(dc.second, 1)>>[s + 1]

extractDigitFromTimeZone(dc, s) ==
    <<IF dc.timezone < 0 THEN 1 ELSE 0, Digit(Abs(dc.timezone), 10),
      Digit(Abs(dc.timezone), 1)>>[s + 1]

extractDigitFromAltitude(dc, s) ==
    <<IF dc.altitude < 0 THEN 1 ELSE 0, Digit(Abs(dc.altitude), 1000),
      Digit(Abs(dc.altitude), 100), Digit(Abs(dc.altitude), 10),
      Digit(Abs(dc.altitude), 1)>>[s + 1]

\* number in units of 1/10000 degree, below 256 degrees in magnitude
extractDigitFromLocation(intgpart, number, s) ==
    LET integer_part    == Abs(number) \div 10000
        fractional_part == Abs(number) % 10000
    IN  IF s = 0 THEN (IF number < 0 THEN 1 ELSE 0)
        ELSE IF s <= intgpart THEN Digit(integer_part, Pow10(intgpart - s))
        ELSE Digit(fractional_part, Pow10((4 + intgpart) - s))

\* DataExtraction: position 37 has no branch, and neither has any above it
DataExtraction(dc, stp, digits) ==
    LET d == IF stp < 14 THEN extractDigitFromTime(dc, stp)
             ELSE IF stp < 17 THEN extractDigitFromTimeZone(dc, stp - 14)
             ELSE IF stp < 22 THEN extractDigitFromAltitude(dc, stp - 17)
             ELSE IF stp < 29 THEN extractDigitFromLocation(2, dc.latitude, stp - 22)
             ELSE extractDigitFromLocation(3, dc.longitude, stp - 29)
    IN  [step   |-> (stp + 1) % 256,
         digits |-> IF stp < 37 THEN [digits EXCEPT ![stp + 1] = d] ELSE digits,
         wrote  |-> IF stp < 37 THEN stp ELSE -1]

\* calculateValue(&digits[first], length)
RECURSIVE calculateValue(_, _, _)
calculateValue(digits, first, length) ==
    IF length = 0 THEN 0
    ELSE (10 * calculateValue(digits, first, length - 1))
            + digits[first + length]

\* applySign: the value arrives as a 16-bit int
applySign(signDigit, value) ==
    LET v == ToInt16(value % 65536)
    IN  IF signDigit = 0 THEN v ELSE 0 - v

applySignDouble(signDigit, value) == IF signDigit = 0 THEN value ELSE 0 - value

\* the values ValidateNewData assembles from the digits (lines 247-258)
EntryOf(digits) ==
    [year      |-> (digits[1] * 1000) + (digits[2] * 100) + (digits[3] * 10)
                      + digits[4],
     month     |-> (digits[5] * 10) + digits[6],
     day       |-> (digits[7] * 10) + digits[8],
     hour      |-> (digits[9] * 10) + digits[10],
     minute    |-> (digits[11] * 10) + digits[12],
     second    |-> (digits[13] * 10) + digits[14],
     timeZone  |-> applySign(digits[15], calculateValue(digits, 15, 2)),
     altitude  |-> applySign(digits[18], calculateValue(digits, 18, 4)),
     latitude  |-> applySignDouble(digits[23], calculateValue(digits, 23, 6)),
     longitude |-> applySignDouble(digits[30], calculateValue(digits, 30, 7))]

\* where ValidateNewData puts the marker after the validator with this
\* number has answered 1
ErrorStep == <<0, 14, 17, 22, 30>>

Rejected(ret) == \E i \in DOMAIN ret : ret[i] = 1

\* ValidateNewData on the digits: the step and Keypad3x4.key_held it leaves,
\* Date_Clock, the returns of the validators it called and the message it
\* sent to the clock device
ValidateDigits(dc, digits) ==
    LET e   == EntryOf(digits)
        ret == ValidatorReturns(e)
    IN  [step     |-> IF Rejected(ret) THEN ErrorStep[Len(ret)] ELSE 0,
         key_held |-> IF Rejected(ret) THEN 21 ELSE 0,
         dc       |-> ValidateNewData(dc, e),
         ret      |-> ret,
         sent     |-> IF Rejected(ret) THEN <<>>
                      ELSE <<[date      |-> SubSeq(digits, 1, 14),
                              timezone  |-> e.timeZone,
                              latitude  |-> e.latitude,
                              longitude |-> e.longitude]>>]

\* newTimeAndPlace[step] = digit; step++.  With step above 37 the byte is
\* stored outside the array: in memory that holds neither static, or on top
\* of `step', the static declared next to the array
WriteDigit(ed, digit) ==
    IF ed.step <= 37
    THEN {[ed EXCEPT !.newTimeAndPlace[ed.step + 1] = digit,
                     !.step = (@ + 1) % 256, !.call.wrote = ed.step]}
    ELSE {[ed EXCEPT !.step = (@ + 1) % 256, !.call.wrote = ed.step],
          [ed EXCEPT !.step = digit + 1, !.call.wrote = ed.step]}

\* backButton
backButton(kp) == IF kp.key = 10 THEN [kp EXCEPT !.key_held = 0] ELSE kp

\* DateAndLocationChangeWindow on the key keypad() left in Keypad3x4.key: the
\* editor, Keypad3x4, Date_Clock and the scan stream it can leave
EditOutcomes(ed0, kp, dc, stream) ==
    LET ed == [ed0 EXCEPT !.call = [NoCall EXCEPT !.altitude = dc.altitude]]
        Finish(o) ==
            [o EXCEPT !.kp = IF o.ed.step = 0 THEN backButton(o.kp) ELSE o.kp]
    IN  IF dc.error = 1
        THEN {Finish([ed |-> ed, kp |-> kp, dc |-> dc, scans |-> stream])}
        ELSE IF kp.key # 10 /\ kp.key # 12
        THEN {Finish([ed |-> w, kp |-> kp, dc |-> dc, scans |-> Released(stream)]) :
                w \in IF kp.key # 0
                      THEN WriteDigit(ed, IF kp.key = 11 THEN 0 ELSE kp.key)
                      ELSE {ed}}
        ELSE IF kp.key = 10 /\ ed.step > 0
        THEN {Finish([ed |-> [ed EXCEPT !.step = @ - 1], kp |-> kp, dc |-> dc,
                      scans |-> stream])}
        ELSE IF kp.key = 12
        THEN LET x   == DataExtraction(dc, ed.step, ed.newTimeAndPlace)
                 ed1 == [ed EXCEPT !.step = x.step, !.newTimeAndPlace = x.digits,
                                   !.call.wrote = x.wrote]
             IN  IF x.step = 38
                 THEN {Finish([ed    |-> [ed1 EXCEPT !.step = v.step,
                                                     !.call.ret = v.ret,
                                                     !.call.sent = v.sent],
                               kp    |-> [kp EXCEPT !.key_held = v.key_held],
                               dc    |-> v.dc,
                               scans |-> stream]) :
                         v \in {ValidateDigits(dc, x.digits)}}
                 ELSE {Finish([ed |-> ed1, kp |-> kp, dc |-> dc, scans |-> stream])}
        ELSE {Finish([ed |-> ed, kp |-> kp, dc |-> dc, scans |-> stream])}

\* windows() with Keypad3x4.key_held = 21
DateAndLocationChangeWindow ==
    /\ pc = "windows"
    /\ Keypad3x4.key_held = 21
    /\ \E o \in EditOutcomes(editor, Keypad3x4, Date_Clock, scans) :
         /\ editor' = o.ed
         /\ Keypad3x4' = o.kp
         /\ Date_Clock' = o.dc
         /\ scans' = o.scans
    /\ pc' = "keypad"
    /\ UNCHANGED <<scenario, bmpRegs, BMP280, SHT21, SUN, Altitude, calls, cycle,
                   rx, reader, keys, upDown>>

\* windows() with Keypad3x4.key_held = 22
ParameterViewWindow ==
    /\ pc = "windows"
    /\ Keypad3x4.key_held = 22
    /\ IF (Keypad3x4.key = 8 /\ upDown < 10) \/ (Keypad3x4.key = 2 /\ upDown > 0)
       THEN /\ scans' = Released(scans)
            /\ upDown' = IF Keypad3x4.key = 8 THEN upDown + 1 ELSE upDown - 1
       ELSE UNCHANGED <<scans, upDown>>
    /\ Keypad3x4' = backButton(Keypad3x4)
    /\ pc' = "keypad"
    /\ UNCHANGED <<scenario, bmpRegs, BMP280, SHT21, SUN, Date_Clock, Altitude,
                   calls, cycle, rx, reader, keys, editor>>

\* windows() with any other Keypad3x4.key_held: MainWindow only displays
MainWindow ==
    /\ pc = "windows"
    /\ Keypad3x4.key_held # 21
    /\ Keypad3x4.key_held # 22
    /\ pc' = "keypad"
    /\ UNCHANGED <<scenario, bmpRegs, BMP280, SHT21, SUN, Date_Clock, Altitude,
                   calls, cycle, ui>>

----------------------------------------------------------------------------
(* keypad() and windows() on scripted key strokes                          *)

\* the key that enters a digit: 0 is on key 11
KeyOf(d) == IF d = 0 THEN 11 ELSE d

\* a key held for the six scans of a long press; the scan of the window the
\* long press opens finds it released
LongPress(k) == <<Run(k, 6), Run(0, 1)>>

\* a key found down by one scan of keypad(), with the release found by the
\* window that waits for it, by the next keypad() and by the window again
Tap(k) == <<Run(k, 1), Run(0, 3)>>

\* the same for a key no window waits for ('*', '#')
TapPlain(k) == <<Run(k, 1), Run(0, 2)>>

\* a key released only while the window waits: the next keypad() already
\* finds the next key down
QuickTap(k) == <<Run(k, 1), Run(0, 1)>>

RECURSIVE Strokes(_, _)
Strokes(ks, kind) ==
    IF ks = <<>> THEN <<>>
    ELSE (IF kind = "tap" THEN Tap(Head(ks))
          ELSE IF kind = "plain" THEN TapPlain(Head(ks))
          ELSE QuickTap(Head(ks))) \o Strokes(Tail(ks), kind)

\* the 37 digits that enter the values of e
DigitsOfEntry(e) ==
    <<Digit(e.year, 1000), Digit(e.year, 100), Digit(e.year, 10), Digit(e.year, 1),
      Digit(e.month, 10), Digit(e.month, 1), Digit(e.day, 10), Digit(e.day, 1),
      Digit(e.hour, 10), Digit(e.hour, 1), Digit(e.minute, 10), Digit(e.minute, 1),
      Digit(e.second, 10), Digit(e.second, 1),
      IF e.timeZone < 0 THEN 1 ELSE 0>>
    \o [i \in 1..2 |-> Digit(Abs(e.timeZone), Pow10(2 - i))]
    \o <<IF e.altitude < 0 THEN 1 ELSE 0>>
    \o [i \in 1..4 |-> Digit(Abs(e.altitude), Pow10(4 - i))]
    \o <<IF e.latitude < 0 THEN 1 ELSE 0>>
    \o [i \in 1..6 |-> Digit(Abs(e.latitude), Pow10(6 - i))]
    \o <<IF e.longitude < 0 THEN 1 ELSE 0>>
    \o [i \in 1..7 |-> Digit(Abs(e.longitude), Pow10(7 - i))]

\* long press 1, the 37 digits of e, then '#'
EnterEntry(e) ==
    LongPress(1)
    \o Strokes([i \in 1..37 |-> KeyOf(DigitsOfEntry(e)[i])], "tap")
    \o TapPlain(12)

EditedEntries ==
    {[RefEntry EXCEPT !.altitude = a] : a \in {-9999, -501, -500, 9000, 9001}}
    \cup {RefEntry, [RefEntry EXCEPT !.month = 13], [RefEntry EXCEPT !.timeZone = -13],
          [RefEntry EXCEPT !.latitude = 900001],
          [RefEntry EXCEPT !.longitude = -1800001]}

\* n digit keys in turn, none twice in a row
Typed(n) == [i \in 1..n |-> IF i % 2 = 1 THEN 1 ELSE 2]

\* more digits than the window has positions
MaxTyped == 40

\* the scans of the longest hold: more than the 32768 after which
\* hold_counter, a uint16_t that grows by 10, has taken every value it can
LongHold == 33000

HoldLengths == (1..MaxCounted) \cup {LongHold}

KeyScripts ==
    {EnterEntry(e) : e \in EditedEntries}
    \cup {LongPress(1) \o Strokes(Typed(n), "quick") : n \in {37, 38, MaxTyped}}
    \cup {LongPress(1) \o Strokes(Typed(38), "quick") \o Strokes(<<12, 12>>, "plain"),
          LongPress(1) \o Strokes([i \in 1..38 |-> 12], "plain"),
          LongPress(1) \o Strokes(<<3, 4>>, "tap") \o Strokes(<<10, 10, 10>>, "plain"),
          LongPress(1) \o Strokes([i \in 1..8 |-> 7], "quick"),
          <<Run(1, 8), Run(0, 1)>>,
          LongPress(2) \o <<Run(8, 1), Run(0, 2), Run(8, 1), Run(0, 2),
                            Run(2, 1), Run(0, 2), Run(10, 1), Run(0, 1)>>}
    \cup {<<Run(5, n), Run(0, 1)>> : n \in HoldLengths}

\* Date_Clock after the clock device has sent RefFrame
ClockOfRefFrame ==
    executeCommandText(InitialClock, [azimuth |-> 0, elevation |-> 0],
                       [i \in 1..(Len(RefFrame) - 2) |-> RefFrame[i + 1].c]).dc

\* the scripts run from the start-up Date_Clock; the '#'-only entry and the
\* '*' strokes also after a command of the clock device and with its error
\* flag set
InitKeyInputs ==
    {<<InitialClock, k>> : k \in KeyScripts}
    \cup {<<c, LongPress(1) \o Strokes([i \in 1..38 |-> 12], "plain")>> :
            c \in {ClockOfRefFrame, [ClockOfRefFrame EXCEPT !.error = 1]}}

InitKeys ==
    /\ scenario = "keys"
    /\ pc = "keypad"
    /\ bmpRegs = RegsOf(RefCalib)
    /\ BMP280 = [dig |-> RefCalib, UT |-> RefUT, UP |-> RefUP,
                 t_fine |-> 0, T |-> 0, p |-> BigZero,
                 Temperature |-> 0, Pressure |-> ZeroPressure]
    /\ SHT21 = [RH |-> 0, T |-> 0]
    /\ SUN = [azimuth |-> 0, elevation |-> 0,
              adjelevation |-> [el |-> 0, refr |-> <<>>], adjazimuth |-> 0]
    /\ Altitude = [UNCOMP |-> <<>>, COMP |-> <<>>, AVRG |-> <<88>>]
    /\ calls = [calib |-> <<8, 8, 8>>, temp |-> 0,
                var1 |-> 0, divided |-> FALSE, pres |-> BigZero,
                sep |-> [data |-> 0, field |-> "none"],
                edit |-> [entry |-> <<>>, ret |-> <<>>]]
    /\ cycle = NewCycle
    /\ rx = <<>>
    /\ reader = IdleReader
    /\ \E in \in InitKeyInputs : Date_Clock = in[1] /\ scans = in[2]
    /\ Keypad3x4 = [key |-> 0, key_held |-> 0]
    /\ keys = IdleKeys
    /\ editor = IdleEditor
    /\ upDown = 0

NextKeys ==
    \/ keypad
    \/ DateAndLocationChangeWindow
    \/ ParameterViewWindow
    \/ MainWindow

SpecKeys == InitKeys /\ [][NextKeys]_vars

----------------------------------------------------------------------------
(* Properties                                                              *)

\* the stage has run in the current loop iteration
Ran(name) == \E i \in DOMAIN cycle.stages : cycle.stages[i] = name

IsPrefix(a, b) == Len(a) <= Len(b) /\ a = SubSeq(b, 1, Len(a))

RefTempCalibration ==
    BMP280.dig.T1 = 27504 /\ BMP280.dig.T2 = 26435 /\ BMP280.dig.T3 = -1000

\* C1: with dig_T1 = 27504, dig_T2 = 26435, dig_T3 = -1000 and UT = 519888,
\* CalcTrueTemp returns 2508 and stores 2508 in BMP280.CalibrationValues.T.
C1_ReferenceTemperature ==
    (Ran("CalcTrueTemp") /\ RefTempCalibration /\ BMP280.UT = RefUT)
        => (calls.temp = 2508 /\ BMP280.T = 2508)

C1_Witness ==
    Ran("CalcTrueTemp") /\ RefTempCalibration /\ BMP280.UT = RefUT

\* C2: with the full reference calibration and UT = 519888, UP = 415148,
\* CalcTrueTemp followed by CalcTruePres returns a Q24.8 value p with
\* 25763559 <= p <= 25764070 (p/25600 within 0.01 of 1006.399 hPa).
C2_ReferencePressure ==
    (Ran("CalcTrueTemp") /\ Ran("CalcTruePres") /\ BMP280.dig = RefCalib
        /\ BMP280.UT = RefUT /\ BMP280.UP = RefUP)
        => (/\ BigCmp(BigOf(25763559), calls.pres) <= 0
            /\ BigCmp(calls.pres, BigOf(25764070)) <= 0)

C2_Witness ==
    /\ Ran("CalcTrueTemp") /\ Ran("CalcTruePres") /\ BMP280.dig = RefCalib
    /\ BMP280.UT = RefUT /\ BMP280.UP = RefUP

\* C3: whenever the guard value ((2^47 + (t_fine - 128000)) * dig_P1) >> 33
\* is 0, CalcTruePres returns 0 and does not execute the division by var1.
C3_ZeroGuard ==
    (Ran("CalcTruePres") /\ BigIsZero(PresVar1(BMP280.dig, BMP280.t_fine)))
        => (calls.pres = BigZero /\ ~calls.divided)

C3_Witness ==
    Ran("CalcTruePres") /\ BigIsZero(PresVar1(BMP280.dig, BMP280.t_fine))

\* C4: the pressure AltitudeAverage reads in a cycle is the value
\* CalcTruePres stored in that cycle, whatever the elevation and the observer
\* altitude the refraction correction ran with.
C4_PressureIsolation ==
    (Ran("AltitudeAverage") /\ cycle.stored # <<>>)
        => Altitude.UNCOMP = cycle.stored

\* the adjusted angles still have their start-up value 0 / 0
AdjustedInitial ==
    SUN.adjelevation = [el |-> 0, refr |-> <<>>] /\ SUN.adjazimuth = 0

\* C5: a correct_solar_angles call with raw elevation <= 0 leaves
\* SUN.adjelevation and SUN.adjazimuth unchanged, whatever the azimuth; until
\* a call with elevation > 0 has computed them, both are 0.
C5_RetainedBelowHorizon ==
    /\ [][(pc = "Retransmitt" /\ SUN'.elevation <= 0)
            => (SUN'.adjelevation = SUN.adjelevation
                /\ SUN'.adjazimuth = SUN.adjazimuth)]_vars
    /\ [](AdjustedInitial \/ SUN.adjelevation.el > 0)

C5_Witness ==
    /\ Ran("correct_solar_angles") /\ SUN.elevation = 0
    /\ SUN.adjelevation.el > 0 /\ SUN.azimuth # SUN.adjazimuth

\* C6: when CalcTruePres starts, CalcTrueTemp has completed in the same loop
\* iteration and t_fine is the value it computed from that iteration's UT.
C6_FineOfSameIteration ==
    pc = "CalcTruePres"
        => (/\ cycle.stages = <<"ReadBMP280TP", "CalcTrueTemp">>
            /\ "t_fine" \in cycle.written
            /\ \E r \in TrueTempOutcomes(BMP280.dig, BMP280.UT) :
                   BMP280.t_fine = r.t_fine)

\* a later iteration, whose t_fine differs from the one the previous
\* CalcTruePres call worked with
C6_Witness ==
    /\ pc = "CalcTruePres" /\ calls.var1 # 0
    /\ calls.var1 # BigToInt(PresVar1(BMP280.dig, BMP280.t_fine))

PipelineOrder ==
    <<"ReadBMP280TP", "CalcTrueTemp", "CalcTruePres", "Separator", "Separator",
      "correct_solar_angles", "AltitudeAverage">>

\* C7 (as stated): in every cycle AltitudeAverage completes before
\* correct_solar_angles runs.
C7_AltitudeBeforeRefraction ==
    Ran("correct_solar_angles") => Ran("AltitudeAverage")

\* C7 (amended): in every cycle the stages run in the order temperature
\* compensation, pressure compensation, humidity separation (twice),
\* refraction correction, altitude estimation.
C7_StageOrder == IsPrefix(cycle.stages, PipelineOrder)

C7_Witness == cycle.stages = PipelineOrder

StatusBit1(data) == (CRC8MAXIM(data) \div 2) % 2 = 1

\* C8: one Separator call writes exactly one of SHT21.RH and SHT21.T and
\* leaves the other unchanged: RH when bit 1 of the decoded word is set, T
\* when it is clear, whatever bit 0 is.
C8_ExactlyOneField ==
    [][(pc \in {"SeparatorRH", "SeparatorT"})
         => IF StatusBit1(calls'.sep.data)
            THEN calls'.sep.field = "RH" /\ SHT21'.T = SHT21.T
                 /\ cycle'.written = cycle.written \cup {"RH"}
            ELSE calls'.sep.field = "T" /\ SHT21'.RH = SHT21.RH
                 /\ cycle'.written = cycle.written \cup {"T"}]_vars

\* a word with bit 1 set and bit 0 clear has been separated into RH
C8_Witness ==
    /\ calls.sep.field = "RH" /\ StatusBit1(calls.sep.data)
    /\ CRC8MAXIM(calls.sep.data) % 2 = 0

\* C9 (as stated): for a word w with bit 1 set Separator stores
\* RH = (w/65536)*125 - 6, for a word with bit 1 clear
\* T = (w/65536)*175.72 - 46.85.
C9_FormulaOnWord ==
    LET w == CRC8MAXIM(calls.sep.data)
    IN  /\ calls.sep.field = "RH" => SHT21.RH = (125 * w) - 393216
        /\ calls.sep.field = "T" => SHT21.T = (17572 * w) - (4685 * 65536)

\* C9 (amended): for a word w with bit 1 set Separator stores
\* RH = ((w - 2)/65536)*125 - 6, the status bit being cleared first; for a
\* word with bit 1 clear it stores T = (w/65536)*175.72 - 46.85.
C9_FormulaStatusCleared ==
    LET w == CRC8MAXIM(calls.sep.data)
    IN  /\ calls.sep.field = "RH" => SHT21.RH = (125 * (w - 2)) - 393216
        /\ calls.sep.field = "T" => SHT21.T = (17572 * w) - (4685 * 65536)

C9_Witness == calls.sep.field = "RH" /\ StatusBit1(calls.sep.data)

\* the 16-bit value of register bytes 2k, 2k+1 (low byte first)
RegWord(k) == bmpRegs[(2 * k) + 1] + (256 * bmpRegs[(2 * k) + 2])

\* C10: after three successful 8-byte reads, coefficient k (in the order
\* dig_T1, dig_T2, dig_T3, dig_P1..dig_P9) is b[2k] + 256*b[2k+1], unsigned
\* for dig_T1 and dig_P1, two's complement signed for the others.
C10_CalibrationDecoding ==
    calls.calib = <<8, 8, 8>>
        => \A k \in 0..11 :
             BMP280.dig[CoefNames[k + 1]] =
                IF k \in {0, 3} \/ RegWord(k) < 32768
                THEN RegWord(k) ELSE RegWord(k) - 65536

C10_Witness ==
    /\ calls.calib = <<8, 8, 8>> /\ bmpRegs = PatternRegs(1)
    /\ \E k \in 0..11 : BMP280.dig[CoefNames[k + 1]] < 0

\* C11: ReadBMP280Calibration runs once, before the loop: once main has left
\* it, it never runs again, and no later step changes any of the twelve
\* coefficients dig_T1..dig_T3, dig_P1..dig_P9.
C11_CalibrationWriteOnce ==
    [][IF pc = "ReadBMP280Calibration"
       THEN pc' = "ReadBMP280TP"
       ELSE pc' # "ReadBMP280Calibration" /\ BMP280'.dig = BMP280.dig]_vars

\* a second loop iteration has started on decoded, non-zero coefficients
C11_Witness ==
    /\ pc = "CalcTrueTemp" /\ Altitude.UNCOMP # <<>>
    /\ BMP280.dig = RefCalib

\* C12: when a raw-count read of ReadBMP280TP ended with an I2C error,
\* CalcTrueTemp and CalcTruePres of that cycle produce nothing fresh:
\* BMP280.Temperature and BMP280.Pressure keep their previous values.
C12_StaleOnReadError ==
    [][(/\ pc \in {"CalcTrueTemp", "CalcTruePres"}
        /\ cycle.errors \cap {"press_msb", "temp_msb"} # {})
         => (/\ BMP280'.Temperature = BMP280.Temperature
             /\ BMP280'.Pressure = BMP280.Pressure)]_vars

\* C13: when the read inside SHT21_Read failed, the Separator call that
\* receives its result leaves both SHT21.RH and SHT21.T as they were.
C13_NoPublishOnFailedRead ==
    [][(/\ pc \in {"SeparatorRH", "SeparatorT"}
        /\ cycle'.errors # cycle.errors)
         => SHT21' = SHT21]_vars

\* C17: for every raw count and every coefficient set the decoder produced,
\* every intermediate value of CalcTrueTemp (each difference, product,
\* shifted term, t_fine and t_fine*5+128) lies within the signed 32-bit range.
C17_TempIntermediatesFit ==
    Ran("CalcTrueTemp") => ~TrueTempOverflows(BMP280.dig, BMP280.UT)

NonPositive(P) == P.num.neg \/ BigIsZero(P.num)

\* C14: when AltitudeAverage runs with BMP280.Pressure <= 0 it does not
\* apply pow/log to it: what it stores in Altitude.UNCOMP and Altitude.COMP
\* is an unavailable marker, not the value of the formulas on that pressure
\* (+infinity or NaN).
C14_DomainGuard ==
    (Ran("AltitudeAverage") /\ NonPositive(BMP280.Pressure))
        => (/\ Altitude.UNCOMP # <<BMP280.Pressure>>
            /\ Altitude.COMP # <<BMP280.Pressure, SHT21.T, SHT21.RH>>
            /\ Uncompensated(Altitude.UNCOMP[1]).kind = "finite")

\* C15 (as stated): the temperature AltitudeAverage uses is the BMP280 true
\* temperature CalcTrueTemp computed in the same cycle.
C15_UsesBmpTemperature ==
    (Ran("CalcTrueTemp") /\ Ran("AltitudeAverage"))
        => (/\ Altitude.COMP[2] % 65536 = 0
            /\ Altitude.COMP[2] \div 65536 = BMP280.Temperature)

\* C15 (amended): the temperature AltitudeAverage uses is SHT21.T, the value
\* Separator stored last; BMP280.Temperature does not enter the altitude.
C15_UsesShtTemperature ==
    Ran("AltitudeAverage")
        => (/\ Altitude.COMP = <<BMP280.Pressure, SHT21.T, SHT21.RH>>
            /\ ("T" \in cycle.written /\ calls.sep.field = "T")
                 => Altitude.COMP[2] = SeparatorResult(calls.sep.data).value)

\* the altitude was computed from an SHT21 temperature of this cycle that
\* differs from the BMP280 temperature of this cycle
C15_Witness ==
    /\ Ran("CalcTrueTemp") /\ Ran("AltitudeAverage") /\ "T" \in cycle.written
    /\ BMP280.Temperature = 2508 /\ Altitude.COMP[2] \div 65536 # 2508

\* the result fields a loop iteration is to rebuild
ResultFields == {"Temperature", "Pressure", "RH", "T", "UNCOMP", "COMP", "AVRG"}

\* C16: at the end of every loop iteration each of BMP280.Temperature,
\* BMP280.Pressure, SHT21.RH, SHT21.T, Altitude.UNCOMP, Altitude.COMP and
\* Altitude.AVRG has been assigned during that iteration.
C16_RebuiltEveryIteration ==
    (pc = "ReadBMP280TP" /\ cycle.stages # <<>>)
        => ResultFields \subseteq cycle.written

\* C18: AltitudeAverage run with BMP280.Pressure = 1013.25 hPa, temperature
\* 15 C and relative humidity 0 % stores an Altitude.UNCOMP within 0.5 m of 0.
C18_SeaLevelIsZero ==
    (/\ Ran("AltitudeAverage")
     /\ Altitude.COMP = <<PressureOf(BigOf(SEA_LEVEL_PRESSURE)), 98304000, 0>>)
        => LET h == Uncompensated(Altitude.UNCOMP[1])
           IN  h.kind = "finite" /\ h.mm >= -500 /\ h.mm <= 500

C18_Witness ==
    /\ Ran("AltitudeAverage")
    /\ Altitude.UNCOMP = <<PressureOf(BigOf(SEA_LEVEL_PRESSURE))>>
    /\ SHT21 = [RH |-> 0, T |-> 98304000]

\* the documented ranges of an entry
DateTimeInRange(e) ==
    /\ e.year >= 1 /\ e.hour <= 23 /\ e.minute <= 59 /\ e.second <= 59
    /\ e.day >= 1
    /\ \/ e.month \in {1, 3, 5, 7, 8, 10, 12} /\ e.day <= 31
       \/ e.month \in {4, 6, 9, 11} /\ e.day <= 30
       \/ e.month = 2 /\ e.day <= 28
       \/ /\ e.month = 2 /\ e.day = 29
          /\ (e.year % 400 = 0 \/ (e.year % 4 = 0 /\ e.year % 100 # 0))

InRange(e) ==
    <<DateTimeInRange(e),
      e.timeZone >= -12 /\ e.timeZone <= 12,
      e.altitude >= -500 /\ e.altitude <= 9000,
      e.latitude >= -900000 /\ e.latitude <= 900000,
      e.longitude >= -1800000 /\ e.longitude <= 1800000>>

C20_EarlyReturnStoresNothing ==
    [][(pc = "CalcTruePres" /\ BigIsZero(PresVar1(BMP280.dig, BMP280.t_fine)))
         => (/\ BMP280'.Pressure = BMP280.Pressure /\ BMP280'.p = BMP280.p
             /\ cycle'.written = cycle.written /\ cycle'.stored = <<>>
             /\ calls'.pres = BigZero)]_vars

\* the early return was taken in a second loop iteration
C20_Witness ==
    /\ pc = "SeparatorRH" /\ calls.var1 = 0 /\ ~calls.divided
    /\ Altitude.UNCOMP = <<ZeroPressure>>

\* C21: for every t_fine of int32_t and every dig_P1 of uint16_t, the guard
\* value var1 of CalcTruePres is 0 exactly when dig_P1 is 0, and the
\* zero-pressure return is taken exactly then.
C21_GuardZeroIffNoP1 ==
    Ran("CalcTruePres") =>
        /\ (calls.var1 = 0) <=> (BMP280.dig.P1 = 0)
        /\ calls.divided <=> (BMP280.dig.P1 # 0)

C21_Witness ==
    /\ Ran("CalcTruePres")
    /\ BMP280.t_fine = MinInt32
    /\ BMP280.dig.P1 = 1
    /\ calls.var1 # 0
    /\ calls.divided

\* C22: provided dig_P1 is not 0, a lapse factor present in BMP280.Pressure
\* after CalcTruePres has run was multiplied in by the correct_solar_angles
\* call of the same loop iteration, once, into the value CalcTruePres stored
\* in that iteration: the factor never compounds.
C22_LapseOncePerStoredPressure ==
    (Ran("CalcTruePres") /\ BMP280.dig.P1 # 0) =>
        /\ cycle.stored # <<>>
        /\ Len(BMP280.Pressure.lapse) <= 1
        /\ cycle.stored = <<[BMP280.Pressure EXCEPT !.lapse = <<>>]>>
        /\ BMP280.Pressure.lapse # <<>> => Ran("correct_solar_angles")

C22_Witness ==
    /\ Ran("correct_solar_angles")
    /\ BMP280.dig.P1 # 0
    /\ Len(BMP280.Pressure.lapse) = 1
    /\ cycle.stored = <<[BMP280.Pressure EXCEPT !.lapse = <<>>]>>

\* C23: a Retransmitt step (ClockAndDataReader, then correct_solar_angles)
\* leaves BMP280.Pressure unchanged whenever the elevation it corrects is
\* <= 0 or Date_Clock.altitude is <= 0.
C23_PressureFrame ==
    [][(pc = "Retransmitt" /\ (SUN'.elevation <= 0 \/ Date_Clock.altitude <= 0))
          => BMP280'.Pressure = BMP280.Pressure]_vars

C23_Witness ==
    /\ pc = "WindAndSunLevel"
    /\ SUN.elevation > 0
    /\ Date_Clock.altitude <= 0
    /\ cycle.stored = <<BMP280.Pressure>>
    /\ ~BigIsZero(BMP280.Pressure.num)

\* C24: every write ClockAndDataReader makes into command[] is at an index in
\* 0..59, and the buffer it passes to executeCommand holds a zero byte.
C24_WritesInsideBuffer ==
    /\ reader.lastWrite \in -1..59
    /\ reader.passed # <<>> => \E i \in DOMAIN reader.passed : reader.passed[i] = 0

\* C25: every write DateAndLocationChangeWindow makes into newTimeAndPlace[]
\* is at an index in 0..37, and a call that fills the last position reaches
\* ValidateNewData, which moves step back below 38.
C25_StepInsideArray ==
    /\ editor.call.wrote \in -1..37
    /\ editor.step <= 37

\* C26: Date_Clock.altitude is in -500..9000 in every state; it differs from
\* its value at the start of the last DateAndLocationChangeWindow call only
\* if that call reached ValidateNewData and all five validators answered 0,
\* and a call in which a validator answered 1 left it unchanged and sent
\* nothing to the clock device.
C26_AltitudeInRange ==
    /\ Date_Clock.altitude \in -500..9000
    /\ Date_Clock.altitude # editor.call.altitude
          => editor.call.ret = <<0, 0, 0, 0, 0>>
    /\ Rejected(editor.call.ret)
          => /\ Date_Clock.altitude = editor.call.altitude
             /\ editor.call.sent = <<>>
    /\ editor.call.sent # <<>> => editor.call.ret = <<0, 0, 0, 0, 0>>

C26_Witness ==
    /\ editor.call.ret = <<0, 0, 1>>
    /\ EntryOf(editor.newTimeAndPlace).altitude = 9001
    /\ Date_Clock.altitude = -50
    /\ editor.call.sent = <<>>

\* C27: during a hold of a key, keypad() has registered the long press once
\* when six or more consecutive scans have found the key down and not at all
\* before; the sixth scan leaves Keypad3x4.key_held = key + 20 and
\* Keypad3x4.key = 0.
C27_LongPressOnce ==
    /\ keys.registered = (IF keys.held >= 6 THEN 1 ELSE 0)
    /\ (pc = "windows" /\ keys.held = 6) =>
           /\ Keypad3x4.key_held = keys.last_key + LONG_PRESS_ADD
           /\ Keypad3x4.key = 0

C27_Witness ==
    /\ keys.held = MaxCounted
    /\ keys.registered = 1
    /\ keys.hold_counter < HOLD_THRESHOLD
    /\ keys.last_key = 5
    /\ Keypad3x4.key_held = 25

====
